---- MODULE Spec2Model ----
(***************************************************************************)
(* devices-api-server: the REST API over Customers -> Sites -> Devices,    *)
(* its token endpoints and its middleware, as a state machine.             *)
(*                                                                         *)
(* The persisted tables (customers, sites, devices, auth_tokens) and the   *)
(* set of tokens the server has signed are the state.  One HTTP exchange   *)
(* is one step: the route's whole handler chain (AuthMiddleware,           *)
(* AdminOnlyMiddleware, the handler, as setupRoutes registers them) runs   *)
(* atomically and leaves the request and its response in `exchange`;       *)
(* loggingMiddleware's tail then completes the exchange.                   *)
(*                                                                         *)
(* Identifiers are UUIDs, modelled as short strings; UUIDOrder is their    *)
(* sort order, which is what GORM's First (ORDER BY primary key LIMIT 1)   *)
(* observes.  A row's timestamps other than the delete marker are not      *)
(* modelled.  A database call is taken to succeed (no I/O failure), and    *)
(* the schema is taken to add no constraint of its own: what is unique is  *)
(* what the handlers keep unique.                                          *)
(*                                                                         *)
(* The process that hosts the server (main, Engine.Run, the shutdown       *)
(* goroutine, the stop file watcher) is a second state machine, one step   *)
(* per blocking point or persisted write of each goroutine.  The API       *)
(* specifications start with the process serving and leave it there; the   *)
(* lifecycle specifications start at the creation of the Engine and leave  *)
(* the tables alone.  The configuration is taken to be valid (port,        *)
(* certificate and key present), so the listener starts.                   *)
(*                                                                         *)
(* Gin serves each request on a goroutine of its own and the handlers      *)
(* take no lock and open no transaction, so between two database calls of  *)
(* one handler another request can run.  The concurrency specification     *)
(* splits CustomerCreate at that point: the lookup by name is one step,    *)
(* the write it decides on is the next, for each request in `pending`.     *)
(***************************************************************************)
EXTENDS Integers, Sequences, FiniteSets, TLC

VARIABLES
    customers,   \* table customers:   id -> [name, deleted]
    sites,       \* table sites:       id -> [name, customer_id, deleted]
    devices,     \* table devices:     id -> [serial, site_id, gateway, deleted]
    authTokens,  \* table auth_tokens: set of [customer_id, action, token, deleted]
    issued,      \* the tokens GenerateJWT has signed and returned so far
    exchange,    \* the HTTP exchange in flight: request and response
    history,     \* history variable: the customer creates that succeeded
    mainPC,      \* where the main goroutine is (main, Engine.Run)
    shutdownPC,  \* where the shutdown goroutine of main is
    watcherPC,   \* where the goroutine of WatchStopFile is
    server,      \* the goroutine of server.Start: "idle", "starting", "listening"
    ctxDone,     \* ctx of signal.NotifyContext is cancelled (ctx.Done() is closed)
    signalled,   \* SIGINT, SIGTERM or SIGHUP has been delivered
    stopFile,    \* the stop file exists
    stopFileChan,\* e.stopFileChan: "open" or "closed"
    wg,          \* the counter of main's sync.WaitGroup
    appState,    \* statePersister: app.status, and whether app.end_time is set
    pending      \* the create requests being served between their database calls

lifecycle ==
    <<mainPC, shutdownPC, watcherPC, server, ctxDone, signalled, stopFile,
      stopFileChan, wg, appState>>
api == <<customers, sites, devices, authTokens, issued, exchange, history, pending>>
vars == <<customers, sites, devices, authTokens, issued, exchange, history,
          mainPC, shutdownPC, watcherPC, server, ctxDone, signalled, stopFile,
          stopFileChan, wg, appState, pending>>
db == <<customers, sites, devices, authTokens>>

(***************************************************************************)
(* Bounds and value universes.                                             *)
(***************************************************************************)
MaxTokens == 2      \* auth_tokens rows ever inserted, session specification
MaxSessions == 1    \* auth_tokens rows ever inserted, resource specification

CustomerIDs == {"c1", "c2"}
SiteIDs == {"s1"}
DeviceIDs == {"d1"}
AdminIDs == {"a1"}
UUIDOrder == <<"a1", "c1", "c2", "d1", "s1", "s2">>

CustomerNames == {"Acme", "Bo"}
SiteNames == {"Main"}
SerialNumbers == {"SN1"}
UnknownSerial == "SN2"      \* a serial number no request body carries
Gateways == {"gw1", "gw2"}

\* The goroutines that serve requests concurrently.
Requests == {"r1", "r2"}

MalformedID == "not-a-uuid"
NilUUID == "00000000-0000-0000-0000-000000000000"
ErrRecordNotFound == "record not found"
BadJSON == "{"

\* DEVICES_SERVER_ADMIN_SECRET, DEVICES_SERVER_JWT_SECRET
AdminSecret == "admin-secret"
JwtSecret == "jwt-secret"
SecretHeaders == {AdminSecret, "guess", ""}

roles == {"admin", "user"}
actions == {"ADMIN", "READ"}
BodyActions == actions \cup {"", "DROP"}

(***************************************************************************)
(* serverutils: identifiers, strings, tokens.                              *)
(***************************************************************************)
IsValidUUID(s) == s \in {UUIDOrder[i] : i \in 1..Len(UUIDOrder)} \cup {NilUUID}

Chars(s) ==
    CASE s = "Acme" -> <<"A", "c", "m", "e">>
      [] s = "Bo" -> <<"B", "o">>
      [] s = "Admin" -> <<"A", "d", "m", "i", "n">>
      [] s = "Ac-e" -> <<"A", "c", "-", "e">>
      [] s = "AAAAAAAAAAAAAAAAAAAAA" -> [i \in 1..21 |-> "A"]
      [] OTHER -> <<>>

WordChars == {"A", "B", "a", "c", "d", "e", "i", "m", "n", "o", "_", " ", "0", "9"}
MinNameLen == 3
MaxNameLen == 20

IsValidString(s) ==
    /\ Len(Chars(s)) >= MinNameLen
    /\ Len(Chars(s)) <= MaxNameLen
    /\ \A i \in 1..Len(Chars(s)) : Chars(s)[i] \in WordChars

IsValidRole(role) == role \in roles

IsValidAction(action) == action \in actions

\* jwt HS256: the signature is a function of the claims and the key.
Sign(claims, key) == <<"HS256", claims, key>>

Token(userID, username, role, action, iat, key) ==
    [user_id |-> userID, user_name |-> username, role |-> role,
     action |-> action, issued_at |-> iat,
     mac |-> Sign(<<userID, username, role, action, iat>>, key)]

\* The empty string: no cookie, no token in the body.
NoToken ==
    [user_id |-> "", user_name |-> "", role |-> "", action |-> "",
     issued_at |-> 0, mac |-> <<"", <<"", "", "", "", 0>>, "">>]

\* time.Now().Unix() at issue.  Only the equality of two stamps is observable
\* (it makes two tokens with the same claims the same string), so seconds are
\* numbered per claims; two tokens with the same claims are taken to be issued
\* in different seconds.
IssuedAt(userID, username, role, action) ==
    1 + Cardinality({t \in issued : /\ t.user_id = userID /\ t.user_name = username
                                     /\ t.role = role /\ t.action = action})

\* Variant: the token is signed whatever the arguments are.
GenerateJWTUnchecked(userID, username, role, action) ==
    [token |-> Token(userID, username, role, action,
                     IssuedAt(userID, username, role, action), JwtSecret),
     err |-> ""]

\* GenerateJWT: the token, or NoToken with an error.
GenerateJWT(userID, username, role, action) ==
    IF ~IsValidUUID(userID) THEN [token |-> NoToken, err |-> "invalid user ID"]
    ELSE IF ~IsValidString(username) THEN [token |-> NoToken, err |-> "invalid username"]
    ELSE IF ~IsValidRole(role) THEN [token |-> NoToken, err |-> "invalid role"]
    ELSE IF ~IsValidAction(action) THEN [token |-> NoToken, err |-> "invalid action"]
    ELSE [token |-> Token(userID, username, role, action,
                          IssuedAt(userID, username, role, action), JwtSecret),
          err |-> ""]

\* Variant: the signature is not checked against the server's key.
ValidateJWTAnyKey(tokenStr) == tokenStr # NoToken

\* ValidateJWT: the signature checks under the server's key (no token of this
\* server carries an expiry: every caller passes expire = false).
ValidateJWT(tokenStr) ==
    /\ tokenStr # NoToken
    /\ tokenStr.mac = Sign(<<tokenStr.user_id, tokenStr.user_name, tokenStr.role,
                             tokenStr.action, tokenStr.issued_at>>, JwtSecret)

\* A token signed with another key, claiming role admin.
ForgedTokens == {Token("a1", "Admin", "admin", "ADMIN", 1, "other-key")}

\* What a client can put in the Authorization cookie or in a body.
Cookies == {NoToken} \cup ForgedTokens \cup issued

(***************************************************************************)
(* The persistence layer as the handlers use it.                           *)
(***************************************************************************)
Rank(u) == CHOOSE i \in 1..Len(UUIDOrder) : UUIDOrder[i] = u

\* First: ORDER BY primary key LIMIT 1 over the matching rows.
First(ids) ==
    IF ids = {} THEN ErrRecordNotFound
    ELSE CHOOSE u \in ids : \A v \in ids : Rank(u) <= Rank(v)

\* Variant: the lookup of a customer by id without the default scope.
FetchCustomerByIDUnscoped(id) ==
    First({c \in DOMAIN customers : c = id})

FetchCustomerByID(id) ==
    First({c \in DOMAIN customers : c = id /\ ~customers[c].deleted})

\* Variant: the lookup by name with the default scope (soft-deleted rows hidden).
FetchCustomerByNameScoped(name) ==
    First({c \in DOMAIN customers : customers[c].name = name /\ ~customers[c].deleted})

\* Variant: the lookup by name finds nothing.
FetchCustomerByNameMissing(name) == ErrRecordNotFound

FetchCustomerByName(name) ==
    First({c \in DOMAIN customers : customers[c].name = name})

\* Variant: the lookup of a site by id without the default scope.
FetchSiteByIDUnscoped(id) ==
    First({s \in DOMAIN sites : s = id})

FetchSiteByID(id) ==
    First({s \in DOMAIN sites : s = id /\ ~sites[s].deleted})

FetchSiteByName(name) ==
    First({s \in DOMAIN sites : sites[s].name = name})

\* Variant: the lookup by serial number with the default scope.
FetchDeviceBySerialNumberScoped(serialNumber) ==
    First({d \in DOMAIN devices : devices[d].serial = serialNumber /\ ~devices[d].deleted})

FetchDeviceBySerialNumber(serialNumber) ==
    First({d \in DOMAIN devices : devices[d].serial = serialNumber})

\* The owning Customer of a Site or Device row, by the stored references.
SiteOwner(s) == sites[s].customer_id
DeviceOwner(d) == sites[devices[d].site_id].customer_id

LiveCustomers == {c \in DOMAIN customers : ~customers[c].deleted}
LiveSites == {s \in DOMAIN sites : ~sites[s].deleted}
LiveDevices == {d \in DOMAIN devices : ~devices[d].deleted}

(***************************************************************************)
(* Requests and responses.                                                 *)
(***************************************************************************)
None == "-"

NoArgs ==
    [customer_id |-> None, site_id |-> None, serial |-> None, name |-> None,
     body_serial |-> None, gateway |-> None, action |-> None, secret |-> None,
     token |-> NoToken]

\* Response: the Response struct of WriteJSON / WriteError, as sent, and the
\* Authorization cookie the response sets (NoToken: no Set-Cookie header).
WriteJSON(status, message, data) ==
    [status |-> status, message |-> message, data |-> data, error |-> "",
     token |-> NoToken, envelope |-> TRUE, set_cookie |-> NoToken]

WriteError(status, message, errMsg) ==
    [status |-> status, message |-> message, data |-> {}, error |-> errMsg,
     token |-> NoToken, envelope |-> TRUE, set_cookie |-> NoToken]

Idle ==
    [route |-> None, cookie |-> NoToken, args |-> NoArgs, ran |-> {},
     resp |-> WriteJSON(0, "", {})]

\* ran: which stages of the chain ran ("auth", "gate", "handler").
Exchange(route, cookie, args, ran, resp) ==
    [route |-> route, cookie |-> cookie, args |-> args, ran |-> ran, resp |-> resp]

\* A goroutine of Requests that serves no request, and all of them so.
IdleRequest ==
    [pc |-> "idle", name |-> "", customer |-> ErrRecordNotFound, deleted |-> FALSE,
     resp |-> WriteJSON(0, "", {})]

NoPending == [r \in Requests |-> IdleRequest]

\* The process while it serves: Run waits on ctx.Done(), the shutdown
\* goroutine waits in its select, the watcher polls, the listener is up.
Serving ==
    /\ mainPC = "wait"
    /\ shutdownPC = "select"
    /\ watcherPC = "poll"
    /\ server = "listening"
    /\ ctxDone = FALSE
    /\ signalled = FALSE
    /\ stopFile = FALSE
    /\ stopFileChan = "open"
    /\ wg = 1
    /\ appState = [status |-> "running", ended |-> FALSE]

Init ==
    /\ customers = [c \in {} |-> None]
    /\ sites = [s \in {} |-> None]
    /\ devices = [d \in {} |-> None]
    /\ authTokens = {}
    /\ issued = {}
    /\ exchange = Idle
    /\ history = [on |-> FALSE, creates |-> {}]
    /\ pending = NoPending
    /\ Serving

(***************************************************************************)
(* Middleware.                                                             *)
(***************************************************************************)
\* gin.Context keys: c.Set / c.GetString ("" for a key never set).
NoCtx == [k \in {} |-> ""]

GetString(ctx, key) == IF key \in DOMAIN ctx THEN ctx[key] ELSE ""

\* The auth_tokens rows a query sees.
LiveAuthTokens == {t \in authTokens : ~t.deleted}

\* Variant: the row is matched on the customer alone.
MatchingAuthTokensAnyAction(claims) ==
    {t \in LiveAuthTokens : t.customer_id = claims.user_id}

\* First(&token, "customer_id = ? and action = ?", claims["user_id"], claims["action"])
MatchingAuthTokens(claims) ==
    {t \in LiveAuthTokens : t.customer_id = claims.user_id /\ t.action = claims.action}

\* Variant: the auth_tokens row is required of every role.
AuthMiddlewareRowForAll(cookie) ==
    IF cookie = NoToken
    THEN [ok |-> FALSE, ctx |-> NoCtx,
          resp |-> WriteError(401, "Unauthorized", "Please authenticate first")]
    ELSE IF ~ValidateJWT(cookie)
    THEN [ok |-> FALSE, ctx |-> NoCtx,
          resp |-> WriteError(401, "Unauthorized", "Invalid token")]
    ELSE IF MatchingAuthTokens(cookie) = {}
    THEN [ok |-> FALSE, ctx |-> NoCtx,
          resp |-> WriteError(401, "Unauthorized", "Token not found")]
    ELSE [ok |-> TRUE,
          ctx |-> [customer_id |-> cookie.user_id, role |-> cookie.role,
                   action |-> cookie.action],
          resp |-> WriteJSON(0, "", {})]

\* AuthMiddleware: the context it binds, or the 401 it aborts with.
AuthMiddleware(cookie) ==
    IF cookie = NoToken
    THEN [ok |-> FALSE, ctx |-> NoCtx,
          resp |-> WriteError(401, "Unauthorized", "Please authenticate first")]
    ELSE IF ~ValidateJWT(cookie)
    THEN [ok |-> FALSE, ctx |-> NoCtx,
          resp |-> WriteError(401, "Unauthorized", "Invalid token")]
    ELSE IF cookie.role # "admin" /\ MatchingAuthTokens(cookie) = {}
    THEN [ok |-> FALSE, ctx |-> NoCtx,
          resp |-> WriteError(401, "Unauthorized", "Token not found")]
    ELSE [ok |-> TRUE,
          ctx |-> [customer_id |-> cookie.user_id, role |-> cookie.role,
                   action |-> cookie.action],
          resp |-> WriteJSON(0, "", {})]

\* Variant: the role gate lets every role through.
AdminOnlyMiddlewareAnyRole(ctx) == TRUE

\* AdminOnlyMiddleware lets the request through.
AdminOnlyMiddleware(ctx) == GetString(ctx, "role") = "admin"

\* Variant: the secret gate lets every header through.
AdminMiddlewareAnySecret(secret) == TRUE

\* AdminMiddleware lets the request through.
AdminMiddleware(secret) == secret = AdminSecret

\* The 401 of AdminMiddleware: gin.H{"error", "message"}, not the Response struct.
AdminSecretRejected ==
    [status |-> 401, message |-> "Invalid admin secret", data |-> {},
     error |-> "Unauthorized", token |-> NoToken, envelope |-> FALSE,
     set_cookie |-> NoToken]

\* A request is served by the listener; serving leaves the process as it is.
Reply(route, cookie, args, ran, resp) ==
    /\ server = "listening"
    /\ exchange' = Exchange(route, cookie, args, ran, resp)
    /\ UNCHANGED <<lifecycle, pending>>

\* The stages a route of protectedGroup runs when the request reaches its handler.
Stages(adminOnly) ==
    IF adminOnly THEN {"auth", "gate", "handler"} ELSE {"auth", "handler"}

\* A route of protectedGroup stops the request: in AuthMiddleware, or in
\* AdminOnlyMiddleware where setupRoutes registers it before the handler.
ProtectedRejects(route, adminOnly) ==
    /\ exchange.route = None
    /\ \E cookie \in Cookies :
         LET auth == AuthMiddleware(cookie) IN
         IF ~auth.ok
         THEN Reply(route, cookie, NoArgs, {"auth"}, auth.resp)
         ELSE /\ adminOnly
              /\ ~AdminOnlyMiddleware(auth.ctx)
              /\ Reply(route, cookie, NoArgs, {"auth", "gate"},
                       WriteError(403, "Unauthorized", "Only admins can perform this action"))
    /\ UNCHANGED <<db, issued, history>>

\* A route of protectedGroup lets the request with this cookie through to
\* its handler.
ProtectedAdmits(cookie, adminOnly) ==
    /\ exchange.route = None
    /\ AuthMiddleware(cookie).ok
    /\ adminOnly => AdminOnlyMiddleware(AuthMiddleware(cookie).ctx)

\* loggingMiddleware after c.Next(): the exchange is logged and over.
RequestCompleted ==
    /\ exchange.route # None
    /\ exchange' = Idle
    /\ UNCHANGED <<db, issued, history, lifecycle, pending>>

(***************************************************************************)
(* /admin: the token endpoints behind AdminMiddleware.                     *)
(***************************************************************************)
GenerateAdminTokenHandler ==
    /\ exchange.route = None
    /\ \E secret \in SecretHeaders, cookie \in Cookies :
         LET args == [NoArgs EXCEPT !.secret = secret] IN
         IF ~AdminMiddleware(secret)
         THEN /\ Reply("POST /admin/generate-admin-token", cookie, args,
                       {"secret"}, AdminSecretRejected)
              /\ UNCHANGED <<db, issued, history>>
         ELSE \E userID \in AdminIDs \ {t.user_id : t \in issued} :
                LET jwt == GenerateJWT(userID, "Admin", "admin", "ADMIN") IN
                IF jwt.err # ""
                THEN /\ Reply("POST /admin/generate-admin-token", cookie, args,
                              {"secret", "handler"},
                              WriteError(500, "Failed to generate token", jwt.err))
                     /\ UNCHANGED <<db, issued, history>>
                ELSE /\ Reply("POST /admin/generate-admin-token", cookie, args,
                              {"secret", "handler"},
                              [WriteJSON(200, "Token generated successfully", {})
                                 EXCEPT !.token = jwt.token])
                     /\ issued' = issued \cup {jwt.token}
                     /\ UNCHANGED <<db, history>>

GenerateTokenHandler(limit) ==
    /\ exchange.route = None
    /\ \E secret \in SecretHeaders, cookie \in Cookies :
         IF ~AdminMiddleware(secret)
         THEN /\ Reply("POST /admin/generate-token", cookie,
                       [NoArgs EXCEPT !.secret = secret], {"secret"}, AdminSecretRejected)
              /\ UNCHANGED <<db, issued, history>>
         ELSE \E customerID \in CustomerIDs \cup {MalformedID, ""}, action \in BodyActions :
                LET route == "POST /admin/generate-token"
                    args == [NoArgs EXCEPT !.secret = secret, !.customer_id = customerID,
                                           !.action = action]
                    ran == {"secret", "handler"}
                    customer == FetchCustomerByID(customerID)
                    Fail(status, message, errMsg) ==
                        /\ Reply(route, cookie, args, ran, WriteError(status, message, errMsg))
                        /\ UNCHANGED <<db, issued, history>>
                IN
                IF customerID = ""
                THEN Fail(400, "Invalid request body", "Customer ID field is required")
                ELSE IF ~IsValidUUID(customerID)
                THEN Fail(400, "Invalid request body", "Invalid Customer ID")
                ELSE IF action = ""
                THEN Fail(400, "Invalid request body", "Action field is required")
                ELSE IF ~IsValidAction(action)
                THEN Fail(400, "Invalid request body", "Action not allowed")
                ELSE IF customer = ErrRecordNotFound
                THEN Fail(404, "Customer not found", "Customer does not exist")
                ELSE LET jwt == GenerateJWT(customerID, customers[customer].name, "user", action) IN
                     IF jwt.err # ""
                     THEN Fail(500, "Failed to generate token", jwt.err)
                     ELSE /\ Cardinality(authTokens) < limit
                          /\ authTokens' = authTokens \cup
                                 {[customer_id |-> customer, action |-> action,
                                   token |-> jwt.token, deleted |-> FALSE]}
                          /\ issued' = issued \cup {jwt.token}
                          /\ Reply(route, cookie, args, ran,
                                   [WriteJSON(200, "Token generated successfully",
                                              {[kind |-> "auth_token", id |-> None,
                                                customer_id |-> customer, site_id |-> None]})
                                      EXCEPT !.token = jwt.token])
                          /\ UNCHANGED <<customers, sites, devices, history>>

\* An auth_tokens row is deleted in the database (no route does it).
AuthTokenDeleted ==
    /\ exchange.route = None
    /\ \E t \in LiveAuthTokens :
         authTokens' = (authTokens \ {t}) \cup {[t EXCEPT !.deleted = TRUE]}
    /\ UNCHANGED <<customers, sites, devices, issued, exchange, history, lifecycle,
                   pending>>

(***************************************************************************)
(* POST /authenticate, outside the protected group.                        *)
(***************************************************************************)
\* A body BindJSON rejects.
BadAuthRequest == [NoToken EXCEPT !.role = BadJSON]

\* Variant: the row is looked up as AuthMiddleware does, by customer and action.
AuthTokenByStringOrClaims(tokenStr) ==
    {t \in LiveAuthTokens : t.token = tokenStr} \cup MatchingAuthTokens(tokenStr)

\* First(&token, "token = ?", body.Token)
AuthTokenByString(tokenStr) ==
    {t \in LiveAuthTokens : t.token = tokenStr}

AuthenticateHandler ==
    /\ exchange.route = None
    /\ \E body \in Cookies \cup {BadAuthRequest} :
         LET route == "POST /authenticate"
             args == [NoArgs EXCEPT !.token = body]
         IN
         /\ Reply(route, NoToken, args, {"handler"},
                  IF body = BadAuthRequest
                  THEN WriteError(400, "Invalid request body", BadJSON)
                  ELSE IF body = NoToken
                  THEN WriteError(400, "Invalid request body", "Token field is required")
                  ELSE IF ~ValidateJWT(body)
                  THEN WriteError(401, "Invalid token", "signature is invalid")
                  ELSE IF body.role # "admin" /\ AuthTokenByString(body) = {}
                  THEN WriteError(401, "Invalid token", "Token not found")
                  ELSE [WriteJSON(200, "Token validated", {}) EXCEPT !.set_cookie = body])
    /\ UNCHANGED <<db, issued, history>>

(***************************************************************************)
(* Customers.                                                              *)
(***************************************************************************)
\* History, kept where history.on: a record for each create request that
\* succeeded (a create or a restore) whose customer has not been deleted
\* since; `changed` once a later update or delete changed a customers row.
RecordCreate(id, name) ==
    history' = IF ~history.on THEN history
               ELSE [history EXCEPT !.creates =
                        {r \in @ : r.id # id} \cup
                        {[name |-> name, id |-> id, changed |-> FALSE]}]

RecordChange(deletedIDs) ==
    history' = IF ~history.on THEN history
               ELSE [history EXCEPT !.creates =
                        {[r EXCEPT !.changed = TRUE] : r \in {x \in @ : x.id \notin deletedIDs}}]

CustomerData(c, name) ==
    [kind |-> "customer", id |-> c, customer_id |-> None, site_id |-> None]

CustomerCreateHandler(cookie, ctx, ran) ==
    \E name \in CustomerNames \cup {""} :
      LET route == "POST /customers"
          args == [NoArgs EXCEPT !.name = name]
          customer == FetchCustomerByName(name)
      IN
      IF name = ""
      THEN /\ Reply(route, cookie, args, ran,
                    WriteError(400, "Invalid request body", "Name field is required"))
           /\ UNCHANGED <<db, issued, history>>
      ELSE IF customer = ErrRecordNotFound
      THEN \E id \in CustomerIDs \ DOMAIN customers :
             /\ customers' = customers @@ (id :> [name |-> name, deleted |-> FALSE])
             /\ Reply(route, cookie, args, ran,
                      WriteJSON(201, "Customer created", {CustomerData(id, name)}))
             /\ RecordCreate(id, name)
             /\ UNCHANGED <<sites, devices, authTokens, issued>>
      ELSE IF customers[customer].deleted
      THEN /\ customers' = [customers EXCEPT ![customer].deleted = FALSE]
           /\ Reply(route, cookie, args, ran,
                    WriteJSON(200, "Customer restored", {CustomerData(customer, name)}))
           /\ RecordCreate(customer, name)
           /\ UNCHANGED <<sites, devices, authTokens, issued>>
      ELSE /\ Reply(route, cookie, args, ran,
                    WriteError(400, "Customer already exists",
                               "A customer with this name already exists"))
           /\ UNCHANGED <<db, issued, history>>

CustomerCreate ==
    \/ ProtectedRejects("POST /customers", TRUE)
    \/ \E cookie \in Cookies :
         /\ ProtectedAdmits(cookie, TRUE)
         /\ CustomerCreateHandler(cookie, AuthMiddleware(cookie).ctx, Stages(TRUE))

CustomerFetchAllHandler(cookie, ctx, ran) ==
    /\ Reply("GET /customers", cookie, NoArgs, ran,
             WriteJSON(200, "Customers fetched",
                       {CustomerData(c, customers[c].name) : c \in LiveCustomers}))
    /\ UNCHANGED <<db, issued, history>>

CustomerFetchAll ==
    \/ ProtectedRejects("GET /customers", TRUE)
    \/ \E cookie \in Cookies :
         /\ ProtectedAdmits(cookie, TRUE)
         /\ CustomerFetchAllHandler(cookie, AuthMiddleware(cookie).ctx, Stages(TRUE))

\* Variant: the row is fetched before the requester is compared with the id.
CustomerFetchByIDHandlerFetchFirst(cookie, ctx, ran) ==
    \E id \in CustomerIDs \cup {MalformedID} :
      LET route == "GET /customers/:customer_id"
          args == [NoArgs EXCEPT !.customer_id = id]
          role == GetString(ctx, "role")
          requesterID == GetString(ctx, "customer_id")
          customer == FetchCustomerByID(id)
      IN
      /\ Reply(route, cookie, args, ran,
               IF ~IsValidUUID(id)
               THEN WriteError(400, "Invalid customer ID", "Invalid UUID format")
               ELSE IF customer = ErrRecordNotFound
               THEN WriteError(404, "Customer not found", "No customer found with the given ID")
               ELSE IF role # "admin" /\ requesterID # id
               THEN WriteError(403, "Forbidden", "Unauthorized access")
               ELSE WriteJSON(200, "Customer fetched",
                              {CustomerData(customer, customers[customer].name)}))
      /\ UNCHANGED <<db, issued, history>>

CustomerFetchByIDHandler(cookie, ctx, ran) ==
    \E id \in CustomerIDs \cup {MalformedID} :
      LET route == "GET /customers/:customer_id"
          args == [NoArgs EXCEPT !.customer_id = id]
          role == GetString(ctx, "role")
          requesterID == GetString(ctx, "customer_id")
          customer == FetchCustomerByID(id)
      IN
      /\ Reply(route, cookie, args, ran,
               IF ~IsValidUUID(id)
               THEN WriteError(400, "Invalid customer ID", "Invalid UUID format")
               ELSE IF role # "admin" /\ requesterID # id
               THEN WriteError(403, "Forbidden", "Unauthorized access")
               ELSE IF customer = ErrRecordNotFound
               THEN WriteError(404, "Customer not found", "No customer found with the given ID")
               ELSE WriteJSON(200, "Customer fetched",
                              {CustomerData(customer, customers[customer].name)}))
      /\ UNCHANGED <<db, issued, history>>

CustomerFetchByID ==
    \/ ProtectedRejects("GET /customers/:customer_id", FALSE)
    \/ \E cookie \in Cookies :
         /\ ProtectedAdmits(cookie, FALSE)
         /\ CustomerFetchByIDHandler(cookie, AuthMiddleware(cookie).ctx, Stages(FALSE))

CustomerUpdateHandler(cookie, ctx, ran) ==
    \E id \in CustomerIDs \cup {MalformedID}, name \in CustomerNames \cup {""} :
      LET route == "PUT /customers/:customer_id"
          args == [NoArgs EXCEPT !.customer_id = id, !.name = name]
          customer == FetchCustomerByID(id)
          Fail(status, message, errMsg) ==
              /\ Reply(route, cookie, args, ran, WriteError(status, message, errMsg))
              /\ UNCHANGED <<db, issued, history>>
      IN
      IF GetString(ctx, "role") # "admin"
      THEN Fail(403, "Forbidden", "Unauthorized access")
      ELSE IF ~IsValidUUID(id)
      THEN Fail(400, "Invalid customer ID", "Invalid UUID format")
      ELSE IF name = ""
      THEN Fail(400, "Invalid request body", "Name field is required")
      ELSE IF customer = ErrRecordNotFound
      THEN Fail(404, "Customer not found", "No customer found with the given ID")
      ELSE /\ customers' = [customers EXCEPT ![customer].name = name]
           /\ Reply(route, cookie, args, ran,
                    WriteJSON(200, "Customer updated", {CustomerData(customer, name)}))
           /\ IF customers[customer].name # name THEN RecordChange({})
              ELSE UNCHANGED history
           /\ UNCHANGED <<sites, devices, authTokens, issued>>

CustomerUpdate ==
    \/ ProtectedRejects("PUT /customers/:customer_id", TRUE)
    \/ \E cookie \in Cookies :
         /\ ProtectedAdmits(cookie, TRUE)
         /\ CustomerUpdateHandler(cookie, AuthMiddleware(cookie).ctx, Stages(TRUE))

\* Variant: the delete cascades to the auth_tokens rows of the customer.
CustomerDeleteHandlerCascade(cookie, ctx, ran) ==
    \E id \in CustomerIDs \cup {MalformedID} :
      LET route == "DELETE /customers/:customer_id"
          args == [NoArgs EXCEPT !.customer_id = id]
          Fail(status, message, errMsg) ==
              /\ Reply(route, cookie, args, ran, WriteError(status, message, errMsg))
              /\ UNCHANGED <<db, issued, history>>
      IN
      IF GetString(ctx, "role") # "admin"
      THEN Fail(403, "Forbidden", "Unauthorized access")
      ELSE IF ~IsValidUUID(id)
      THEN Fail(400, "Invalid customer ID", "Invalid UUID format")
      ELSE /\ customers' = [c \in DOMAIN customers |->
                              IF c = id THEN [customers[c] EXCEPT !.deleted = TRUE]
                              ELSE customers[c]]
           /\ authTokens' = {IF t.customer_id = id THEN [t EXCEPT !.deleted = TRUE] ELSE t :
                               t \in authTokens}
           /\ Reply(route, cookie, args, ran, WriteJSON(200, "Customer deleted", {}))
           /\ IF id \in LiveCustomers THEN RecordChange({id}) ELSE UNCHANGED history
           /\ UNCHANGED <<sites, devices, issued>>

CustomerDeleteHandler(cookie, ctx, ran) ==
    \E id \in CustomerIDs \cup {MalformedID} :
      LET route == "DELETE /customers/:customer_id"
          args == [NoArgs EXCEPT !.customer_id = id]
          Fail(status, message, errMsg) ==
              /\ Reply(route, cookie, args, ran, WriteError(status, message, errMsg))
              /\ UNCHANGED <<db, issued, history>>
      IN
      IF GetString(ctx, "role") # "admin"
      THEN Fail(403, "Forbidden", "Unauthorized access")
      ELSE IF ~IsValidUUID(id)
      THEN Fail(400, "Invalid customer ID", "Invalid UUID format")
      ELSE \* UPDATE customers SET deleted_at = now WHERE id = ? AND deleted_at IS NULL
           /\ customers' = [c \in DOMAIN customers |->
                              IF c = id THEN [customers[c] EXCEPT !.deleted = TRUE]
                              ELSE customers[c]]
           /\ Reply(route, cookie, args, ran, WriteJSON(200, "Customer deleted", {}))
           /\ IF id \in LiveCustomers THEN RecordChange({id}) ELSE UNCHANGED history
           /\ UNCHANGED <<sites, devices, authTokens, issued>>

CustomerDelete ==
    \/ ProtectedRejects("DELETE /customers/:customer_id", TRUE)
    \/ \E cookie \in Cookies :
         /\ ProtectedAdmits(cookie, TRUE)
         /\ CustomerDeleteHandler(cookie, AuthMiddleware(cookie).ctx, Stages(TRUE))

(***************************************************************************)
(* Sites.                                                                  *)
(***************************************************************************)
\* Preload("Customer") under the default scope: a soft-deleted Customer is
\* not loaded and the field keeps its zero value.
PreloadCustomer(customerID) ==
    IF FetchCustomerByID(customerID) = ErrRecordNotFound THEN NilUUID ELSE customerID

\* Preload("Site") under the default scope.
PreloadSite(siteID) ==
    IF FetchSiteByID(siteID) = ErrRecordNotFound THEN NilUUID ELSE siteID

SiteData(s, customerID) ==
    [kind |-> "site", id |-> s, customer_id |-> customerID, site_id |-> None]

\* Variant: a restore moves the site to the customer of the path.
SiteCreateHandlerReparent(cookie, ctx, ran) ==
    \E customerID \in CustomerIDs \cup {MalformedID}, name \in SiteNames \cup {""} :
      LET route == "POST /customers/:customer_id/sites"
          args == [NoArgs EXCEPT !.customer_id = customerID, !.name = name]
          customer == FetchCustomerByID(customerID)
          site == FetchSiteByName(name)
          Fail(status, message, errMsg) ==
              /\ Reply(route, cookie, args, ran, WriteError(status, message, errMsg))
              /\ UNCHANGED <<db, issued, history>>
      IN
      IF ~IsValidUUID(customerID)
      THEN Fail(400, "Invalid customer ID", "Invalid UUID format")
      ELSE IF name = ""
      THEN Fail(400, "Invalid request body", "Name field is required")
      ELSE IF customer = ErrRecordNotFound
      THEN Fail(404, "Customer not found", "No customer found with the given ID")
      ELSE IF site = ErrRecordNotFound
      THEN \E id \in SiteIDs \ DOMAIN sites :
             /\ sites' = sites @@
                   (id :> [name |-> name, customer_id |-> customer, deleted |-> FALSE])
             /\ Reply(route, cookie, args, ran,
                      WriteJSON(200, "Site created", {SiteData(id, customer)}))
             /\ UNCHANGED <<customers, devices, authTokens, issued, history>>
      ELSE IF sites[site].deleted
      THEN /\ sites' = [sites EXCEPT ![site].deleted = FALSE,
                                    ![site].customer_id = customer]
           /\ Reply(route, cookie, args, ran,
                    WriteJSON(200, "Site restored", {SiteData(site, customer)}))
           /\ UNCHANGED <<customers, devices, authTokens, issued, history>>
      ELSE Fail(400, "Site already exists", "A site with this name already exists")

SiteCreateHandler(cookie, ctx, ran) ==
    \E customerID \in CustomerIDs \cup {MalformedID}, name \in SiteNames \cup {""} :
      LET route == "POST /customers/:customer_id/sites"
          args == [NoArgs EXCEPT !.customer_id = customerID, !.name = name]
          customer == FetchCustomerByID(customerID)
          site == FetchSiteByName(name)
          Fail(status, message, errMsg) ==
              /\ Reply(route, cookie, args, ran, WriteError(status, message, errMsg))
              /\ UNCHANGED <<db, issued, history>>
      IN
      IF ~IsValidUUID(customerID)
      THEN Fail(400, "Invalid customer ID", "Invalid UUID format")
      ELSE IF name = ""
      THEN Fail(400, "Invalid request body", "Name field is required")
      ELSE IF customer = ErrRecordNotFound
      THEN Fail(404, "Customer not found", "No customer found with the given ID")
      ELSE IF site = ErrRecordNotFound
      THEN \E id \in SiteIDs \ DOMAIN sites :
             /\ sites' = sites @@
                   (id :> [name |-> name, customer_id |-> customer, deleted |-> FALSE])
             /\ Reply(route, cookie, args, ran,
                      WriteJSON(200, "Site created", {SiteData(id, customer)}))
             /\ UNCHANGED <<customers, devices, authTokens, issued, history>>
      ELSE IF sites[site].deleted
      THEN \* Save writes the row as loaded, with its own customer_id.
           /\ sites' = [sites EXCEPT ![site].deleted = FALSE]
           /\ Reply(route, cookie, args, ran,
                    WriteJSON(200, "Site restored", {SiteData(site, customer)}))
           /\ UNCHANGED <<customers, devices, authTokens, issued, history>>
      ELSE Fail(400, "Site already exists", "A site with this name already exists")

SiteCreate ==
    \/ ProtectedRejects("POST /customers/:customer_id/sites", TRUE)
    \/ \E cookie \in Cookies :
         /\ ProtectedAdmits(cookie, TRUE)
         /\ SiteCreateHandler(cookie, AuthMiddleware(cookie).ctx, Stages(TRUE))

SiteFetchAllHandler(cookie, ctx, ran) ==
    /\ Reply("GET /sites", cookie, NoArgs, ran,
             IF \E s \in LiveSites : FetchCustomerByID(sites[s].customer_id) = ErrRecordNotFound
             THEN WriteError(500, "Failed to fetch customer", ErrRecordNotFound)
             ELSE WriteJSON(200, "Sites fetched",
                            {SiteData(s, sites[s].customer_id) : s \in LiveSites}))
    /\ UNCHANGED <<db, issued, history>>

SiteFetchAll ==
    \/ ProtectedRejects("GET /sites", TRUE)
    \/ \E cookie \in Cookies :
         /\ ProtectedAdmits(cookie, TRUE)
         /\ SiteFetchAllHandler(cookie, AuthMiddleware(cookie).ctx, Stages(TRUE))

SiteFetchByIDHandler(cookie, ctx, ran) ==
    \E siteID \in SiteIDs \cup {MalformedID} :
      LET route == "GET /sites/:site_id"
          args == [NoArgs EXCEPT !.site_id = siteID]
          role == GetString(ctx, "role")
          requesterID == GetString(ctx, "user_id")
          site == FetchSiteByID(siteID)
          customer == FetchCustomerByID(sites[site].customer_id)
      IN
      /\ Reply(route, cookie, args, ran,
               IF ~IsValidUUID(siteID)
               THEN WriteError(400, "Invalid site ID", "Invalid UUID format")
               ELSE IF site = ErrRecordNotFound
               THEN WriteError(404, "Site not found", "No site found with the given ID")
               ELSE IF customer = ErrRecordNotFound
               THEN WriteError(404, "Customer not found", "No customer found with the given ID")
               ELSE IF role # "admin" /\ requesterID # customer
               THEN WriteError(403, "Forbidden", "You are not authorized to access this site")
               ELSE WriteJSON(200, "Site fetched", {SiteData(site, customer)}))
      /\ UNCHANGED <<db, issued, history>>

SiteFetchByID ==
    \/ ProtectedRejects("GET /sites/:site_id", FALSE)
    \/ \E cookie \in Cookies :
         /\ ProtectedAdmits(cookie, FALSE)
         /\ SiteFetchByIDHandler(cookie, AuthMiddleware(cookie).ctx, Stages(FALSE))

SiteFetchByCustomerIDHandler(cookie, ctx, ran) ==
    \E customerID \in CustomerIDs \cup {MalformedID} :
      LET route == "GET /customers/:customer_id/sites"
          args == [NoArgs EXCEPT !.customer_id = customerID]
          role == GetString(ctx, "role")
          requesterID == GetString(ctx, "user_id")
          customer == FetchCustomerByID(customerID)
      IN
      /\ Reply(route, cookie, args, ran,
               IF ~IsValidUUID(customerID)
               THEN WriteError(400, "Invalid customer ID", "Invalid UUID format")
               ELSE IF customer = ErrRecordNotFound
               THEN WriteError(404, "Customer not found", "No customer found with the given ID")
               ELSE IF role # "admin" /\ requesterID # customer
               THEN WriteError(403, "Forbidden",
                               "You are not authorized to access this customer's sites")
               ELSE WriteJSON(200, "Sites fetched",
                              {SiteData(s, customer) :
                                 s \in {x \in LiveSites : sites[x].customer_id = customer}}))
      /\ UNCHANGED <<db, issued, history>>

SiteFetchByCustomerID ==
    \/ ProtectedRejects("GET /customers/:customer_id/sites", FALSE)
    \/ \E cookie \in Cookies :
         /\ ProtectedAdmits(cookie, FALSE)
         /\ SiteFetchByCustomerIDHandler(cookie, AuthMiddleware(cookie).ctx, Stages(FALSE))

SiteUpdateHandler(cookie, ctx, ran) ==
    \E siteID \in SiteIDs \cup {MalformedID}, name \in SiteNames \cup {""} :
      LET route == "PUT /sites/:site_id"
          args == [NoArgs EXCEPT !.site_id = siteID, !.name = name]
          site == FetchSiteByID(siteID)
          Fail(status, message, errMsg) ==
              /\ Reply(route, cookie, args, ran, WriteError(status, message, errMsg))
              /\ UNCHANGED <<db, issued, history>>
      IN
      IF ~IsValidUUID(siteID)
      THEN Fail(400, "Invalid site ID", "Invalid UUID format")
      ELSE IF name = ""
      THEN Fail(400, "Invalid request body", "Name field is required")
      ELSE IF site = ErrRecordNotFound
      THEN Fail(404, "Site not found", "No site found with the given ID")
      ELSE /\ sites' = [sites EXCEPT ![site].name = name]
           /\ Reply(route, cookie, args, ran,
                    WriteJSON(200, "Site updated",
                              {SiteData(site, PreloadCustomer(sites[site].customer_id))}))
           /\ UNCHANGED <<customers, devices, authTokens, issued, history>>

SiteUpdate ==
    \/ ProtectedRejects("PUT /sites/:site_id", TRUE)
    \/ \E cookie \in Cookies :
         /\ ProtectedAdmits(cookie, TRUE)
         /\ SiteUpdateHandler(cookie, AuthMiddleware(cookie).ctx, Stages(TRUE))

SiteDeleteHandler(cookie, ctx, ran) ==
    \E siteID \in SiteIDs \cup {MalformedID} :
      LET route == "DELETE /sites/:site_id"
          args == [NoArgs EXCEPT !.site_id = siteID]
          site == FetchSiteByID(siteID)
          Fail(status, message, errMsg) ==
              /\ Reply(route, cookie, args, ran, WriteError(status, message, errMsg))
              /\ UNCHANGED <<db, issued, history>>
      IN
      IF ~IsValidUUID(siteID)
      THEN Fail(400, "Invalid site ID", "Invalid UUID format")
      ELSE IF site = ErrRecordNotFound
      THEN Fail(404, "Site not found", "No site found with the given ID")
      ELSE /\ sites' = [sites EXCEPT ![site].deleted = TRUE]
           /\ Reply(route, cookie, args, ran, WriteJSON(200, "Site deleted", {}))
           /\ UNCHANGED <<customers, devices, authTokens, issued, history>>

SiteDelete ==
    \/ ProtectedRejects("DELETE /sites/:site_id", TRUE)
    \/ \E cookie \in Cookies :
         /\ ProtectedAdmits(cookie, TRUE)
         /\ SiteDeleteHandler(cookie, AuthMiddleware(cookie).ctx, Stages(TRUE))

(***************************************************************************)
(* Devices.                                                                *)
(***************************************************************************)
\* DeviceRequest: the serial number and, standing for the seven other fields
\* the handlers copy alike (gateway, controller, ..., auth_token), the gateway.
DeviceRequests == [serial : SerialNumbers, gateway : Gateways]

\* A body ShouldBindJSON rejects.
BadDeviceRequest == [serial |-> BadJSON, gateway |-> None]

DeviceData(d, customerID, siteID) ==
    [kind |-> "device", id |-> d, customer_id |-> customerID, site_id |-> siteID]

\* Preload("Site.Customer") of a device row under the default scope.
PreloadSiteCustomer(d) ==
    IF PreloadSite(devices[d].site_id) = NilUUID THEN NilUUID
    ELSE PreloadCustomer(sites[devices[d].site_id].customer_id)

\* The site ids a request path can carry: those the server can allocate,
\* those of the rows there are, and a malformed one.
SitePathIDs == SiteIDs \cup DOMAIN sites \cup {MalformedID}

\* Variant: the restore writes the body's fields and the path's site.
DeviceCreateHandlerRebind(cookie, ctx, ran) ==
    \E customerID \in CustomerIDs \cup {MalformedID}, siteID \in SitePathIDs,
       body \in DeviceRequests \cup {BadDeviceRequest} :
      LET route == "POST /customers/:customer_id/sites/:site_id/devices"
          args == [NoArgs EXCEPT !.customer_id = customerID, !.site_id = siteID,
                                 !.body_serial = body.serial, !.gateway = body.gateway]
          customer == FetchCustomerByID(customerID)
          site == FetchSiteByID(siteID)
          device == FetchDeviceBySerialNumber(body.serial)
          Fail(status, message, errMsg) ==
              /\ Reply(route, cookie, args, ran, WriteError(status, message, errMsg))
              /\ UNCHANGED <<db, issued, history>>
      IN
      IF body = BadDeviceRequest
      THEN Fail(400, "Invalid request body", "Invalid JSON format")
      ELSE IF ~IsValidUUID(customerID)
      THEN Fail(400, "Invalid customer ID", "Invalid UUID format")
      ELSE IF ~IsValidUUID(siteID)
      THEN Fail(400, "Invalid site ID", "Invalid UUID format")
      ELSE IF customer = ErrRecordNotFound
      THEN Fail(404, "Customer not found", "No customer found with the given ID")
      ELSE IF site = ErrRecordNotFound
      THEN Fail(404, "Site not found", "No site found with the given ID")
      ELSE IF sites[site].customer_id # customer
      THEN Fail(403, "Forbidden", "There is no site with the given ID for the given customer")
      ELSE IF device = ErrRecordNotFound
      THEN \E id \in DeviceIDs \ DOMAIN devices :
             /\ devices' = devices @@
                   (id :> [serial |-> body.serial, site_id |-> site,
                           gateway |-> body.gateway, deleted |-> FALSE])
             /\ Reply(route, cookie, args, ran,
                      WriteJSON(200, "Device created", {DeviceData(id, customer, site)}))
             /\ UNCHANGED <<customers, sites, authTokens, issued, history>>
      ELSE IF devices[device].deleted
      THEN /\ devices' = [devices EXCEPT ![device].deleted = FALSE,
                                         ![device].gateway = body.gateway,
                                         ![device].site_id = site]
           /\ Reply(route, cookie, args, ran,
                    WriteJSON(200, "Device restored", {DeviceData(device, customer, site)}))
           /\ UNCHANGED <<customers, sites, authTokens, issued, history>>
      ELSE Fail(400, "Device already exists", "A device with this serial number already exists")

DeviceCreateHandler(cookie, ctx, ran) ==
    \E customerID \in CustomerIDs \cup {MalformedID}, siteID \in SitePathIDs,
       body \in DeviceRequests \cup {BadDeviceRequest} :
      LET route == "POST /customers/:customer_id/sites/:site_id/devices"
          args == [NoArgs EXCEPT !.customer_id = customerID, !.site_id = siteID,
                                 !.body_serial = body.serial, !.gateway = body.gateway]
          customer == FetchCustomerByID(customerID)
          site == FetchSiteByID(siteID)
          device == FetchDeviceBySerialNumber(body.serial)
          Fail(status, message, errMsg) ==
              /\ Reply(route, cookie, args, ran, WriteError(status, message, errMsg))
              /\ UNCHANGED <<db, issued, history>>
      IN
      IF body = BadDeviceRequest
      THEN Fail(400, "Invalid request body", "Invalid JSON format")
      ELSE IF ~IsValidUUID(customerID)
      THEN Fail(400, "Invalid customer ID", "Invalid UUID format")
      ELSE IF ~IsValidUUID(siteID)
      THEN Fail(400, "Invalid site ID", "Invalid UUID format")
      ELSE IF customer = ErrRecordNotFound
      THEN Fail(404, "Customer not found", "No customer found with the given ID")
      ELSE IF site = ErrRecordNotFound
      THEN Fail(404, "Site not found", "No site found with the given ID")
      ELSE IF sites[site].customer_id # customer
      THEN Fail(403, "Forbidden", "There is no site with the given ID for the given customer")
      ELSE IF device = ErrRecordNotFound
      THEN \E id \in DeviceIDs \ DOMAIN devices :
             /\ devices' = devices @@
                   (id :> [serial |-> body.serial, site_id |-> site,
                           gateway |-> body.gateway, deleted |-> FALSE])
             /\ Reply(route, cookie, args, ran,
                      WriteJSON(200, "Device created", {DeviceData(id, customer, site)}))
             /\ UNCHANGED <<customers, sites, authTokens, issued, history>>
      ELSE IF devices[device].deleted
      THEN \* Updates with Select("deleted_at", "created_at", "updated_at")
           /\ devices' = [devices EXCEPT ![device].deleted = FALSE]
           /\ Reply(route, cookie, args, ran,
                    WriteJSON(200, "Device restored", {DeviceData(device, customer, site)}))
           /\ UNCHANGED <<customers, sites, authTokens, issued, history>>
      ELSE Fail(400, "Device already exists", "A device with this serial number already exists")

DeviceCreate ==
    \/ ProtectedRejects("POST /customers/:customer_id/sites/:site_id/devices", TRUE)
    \/ \E cookie \in Cookies :
         /\ ProtectedAdmits(cookie, TRUE)
         /\ DeviceCreateHandler(cookie, AuthMiddleware(cookie).ctx, Stages(TRUE))

\* The route is registered without AdminOnlyMiddleware and the handler reads
\* neither the role nor the requester.
DeviceFetchAllHandler(cookie, ctx, ran) ==
    /\ Reply("GET /devices", cookie, NoArgs, ran,
             IF \E d \in LiveDevices :
                  FetchCustomerByID(
                      IF PreloadSite(devices[d].site_id) = NilUUID THEN NilUUID
                      ELSE sites[devices[d].site_id].customer_id) = ErrRecordNotFound
             THEN WriteError(500, "Failed to fetch customer", ErrRecordNotFound)
             ELSE WriteJSON(200, "Devices fetched",
                            {DeviceData(d, sites[devices[d].site_id].customer_id,
                                        devices[d].site_id) : d \in LiveDevices}))
    /\ UNCHANGED <<db, issued, history>>

DeviceFetchAll ==
    \/ ProtectedRejects("GET /devices", FALSE)
    \/ \E cookie \in Cookies :
         /\ ProtectedAdmits(cookie, FALSE)
         /\ DeviceFetchAllHandler(cookie, AuthMiddleware(cookie).ctx, Stages(FALSE))

DeviceFetchByCustomerIDHandler(cookie, ctx, ran) ==
    \E customerID \in CustomerIDs \cup {MalformedID} :
      LET route == "GET /customers/:customer_id/devices"
          args == [NoArgs EXCEPT !.customer_id = customerID]
          role == GetString(ctx, "role")
          requesterID == GetString(ctx, "user_id")
          customer == FetchCustomerByID(customerID)
          \* site_id IN (SELECT id FROM sites WHERE customer_id = ?): raw SQL,
          \* soft-deleted sites included
          found == {d \in LiveDevices : sites[devices[d].site_id].customer_id = customer}
      IN
      /\ Reply(route, cookie, args, ran,
               IF ~IsValidUUID(customerID)
               THEN WriteError(400, "Invalid customer ID", "Invalid UUID format")
               ELSE IF customer = ErrRecordNotFound
               THEN WriteError(404, "Customer not found", "No customer found with the given ID")
               ELSE IF role # "admin" /\ customer # requesterID
               THEN WriteError(403, "Forbidden",
                               "You are not authorized to access this customer's devices")
               ELSE WriteJSON(200, "Devices fetched",
                              {DeviceData(d, customer, PreloadSite(devices[d].site_id)) :
                                 d \in found}))
      /\ UNCHANGED <<db, issued, history>>

DeviceFetchByCustomerID ==
    \/ ProtectedRejects("GET /customers/:customer_id/devices", FALSE)
    \/ \E cookie \in Cookies :
         /\ ProtectedAdmits(cookie, FALSE)
         /\ DeviceFetchByCustomerIDHandler(cookie, AuthMiddleware(cookie).ctx, Stages(FALSE))

\* The route is registered without AdminOnlyMiddleware and the handler reads
\* neither the role nor the requester.
DeviceFetchBySiteIDHandler(cookie, ctx, ran) ==
    \E siteID \in SiteIDs \cup {MalformedID} :
      LET route == "GET /sites/:site_id/devices"
          args == [NoArgs EXCEPT !.site_id = siteID]
          site == FetchSiteByID(siteID)
      IN
      /\ Reply(route, cookie, args, ran,
               IF ~IsValidUUID(siteID)
               THEN WriteError(400, "Invalid site ID", "Invalid UUID format")
               ELSE IF site = ErrRecordNotFound
               THEN WriteError(404, "Site not found", "No site found with the given ID")
               ELSE WriteJSON(200, "Devices fetched",
                              {DeviceData(d, PreloadSiteCustomer(d), site) :
                                 d \in {x \in LiveDevices : devices[x].site_id = site}}))
      /\ UNCHANGED <<db, issued, history>>

DeviceFetchBySiteID ==
    \/ ProtectedRejects("GET /sites/:site_id/devices", FALSE)
    \/ \E cookie \in Cookies :
         /\ ProtectedAdmits(cookie, FALSE)
         /\ DeviceFetchBySiteIDHandler(cookie, AuthMiddleware(cookie).ctx, Stages(FALSE))

DeviceFetchBySerialNumberHandler(cookie, ctx, ran) ==
    \E serialNumber \in SerialNumbers \cup {UnknownSerial} :
      LET route == "GET /devices/:device_serial_number"
          args == [NoArgs EXCEPT !.serial = serialNumber]
          role == GetString(ctx, "role")
          requesterID == GetString(ctx, "user_id")
          device == FetchDeviceBySerialNumber(serialNumber)
          \* Unscoped().Preload("Site.Customer"): the preloads are unscoped too
          siteCustomer == sites[devices[device].site_id].customer_id
      IN
      /\ Reply(route, cookie, args, ran,
               IF device = ErrRecordNotFound
               THEN WriteError(404, "Device not found",
                               "No device found with the given serial number")
               ELSE IF role # "admin" /\ siteCustomer # requesterID
               THEN WriteError(403, "Forbidden",
                               "You are not authorized to access this customer's devices")
               ELSE WriteJSON(200, "Device fetched",
                              {DeviceData(device, siteCustomer, devices[device].site_id)}))
      /\ UNCHANGED <<db, issued, history>>

DeviceFetchBySerialNumber ==
    \/ ProtectedRejects("GET /devices/:device_serial_number", FALSE)
    \/ \E cookie \in Cookies :
         /\ ProtectedAdmits(cookie, FALSE)
         /\ DeviceFetchBySerialNumberHandler(cookie, AuthMiddleware(cookie).ctx, Stages(FALSE))

\* Variant: the update writes the row without its delete marker.
DeviceUpdateHandlerReactivate(cookie, ctx, ran) ==
    \E serialNumber \in SerialNumbers \cup {UnknownSerial}, body \in DeviceRequests \cup {BadDeviceRequest} :
      LET route == "PUT /devices/:device_serial_number"
          args == [NoArgs EXCEPT !.serial = serialNumber, !.body_serial = body.serial,
                                 !.gateway = body.gateway]
          device == FetchDeviceBySerialNumber(serialNumber)
          Fail(status, message, errMsg) ==
              /\ Reply(route, cookie, args, ran, WriteError(status, message, errMsg))
              /\ UNCHANGED <<db, issued, history>>
      IN
      IF body = BadDeviceRequest
      THEN Fail(400, "Invalid request body", "Invalid JSON format")
      ELSE IF device = ErrRecordNotFound
      THEN Fail(404, "Device not found", "No device found with the given serial number")
      ELSE /\ devices' = [devices EXCEPT ![device].serial = body.serial,
                                         ![device].gateway = body.gateway,
                                         ![device].deleted = FALSE]
           /\ Reply(route, cookie, args, ran,
                    WriteJSON(200, "Device updated",
                              {DeviceData(device, sites[devices[device].site_id].customer_id,
                                          devices[device].site_id)}))
           /\ UNCHANGED <<customers, sites, authTokens, issued, history>>

DeviceUpdateHandler(cookie, ctx, ran) ==
    \E serialNumber \in SerialNumbers \cup {UnknownSerial}, body \in DeviceRequests \cup {BadDeviceRequest} :
      LET route == "PUT /devices/:device_serial_number"
          args == [NoArgs EXCEPT !.serial = serialNumber, !.body_serial = body.serial,
                                 !.gateway = body.gateway]
          device == FetchDeviceBySerialNumber(serialNumber)
          Fail(status, message, errMsg) ==
              /\ Reply(route, cookie, args, ran, WriteError(status, message, errMsg))
              /\ UNCHANGED <<db, issued, history>>
      IN
      IF body = BadDeviceRequest
      THEN Fail(400, "Invalid request body", "Invalid JSON format")
      ELSE IF device = ErrRecordNotFound
      THEN Fail(404, "Device not found", "No device found with the given serial number")
      ELSE \* Save: UPDATE of every column; for a soft-deleted row the UPDATE matches
           \* nothing and Save falls back to an upsert of the row as held in
           \* memory, delete marker included.
           /\ devices' = [devices EXCEPT ![device].serial = body.serial,
                                         ![device].gateway = body.gateway]
           /\ Reply(route, cookie, args, ran,
                    WriteJSON(200, "Device updated",
                              {DeviceData(device, sites[devices[device].site_id].customer_id,
                                          devices[device].site_id)}))
           /\ UNCHANGED <<customers, sites, authTokens, issued, history>>

DeviceUpdate ==
    \/ ProtectedRejects("PUT /devices/:device_serial_number", TRUE)
    \/ \E cookie \in Cookies :
         /\ ProtectedAdmits(cookie, TRUE)
         /\ DeviceUpdateHandler(cookie, AuthMiddleware(cookie).ctx, Stages(TRUE))

\* Variant: the row is removed from the table.
DeviceDeleteHandlerHard(cookie, ctx, ran) ==
    \E serialNumber \in SerialNumbers \cup {UnknownSerial} :
      LET route == "DELETE /devices/:device_serial_number"
          args == [NoArgs EXCEPT !.serial = serialNumber]
          device == FetchDeviceBySerialNumber(serialNumber)
      IN
      IF device = ErrRecordNotFound
      THEN /\ Reply(route, cookie, args, ran,
                    WriteError(404, "Device not found",
                               "No device found with the given serial number"))
           /\ UNCHANGED <<db, issued, history>>
      ELSE /\ devices' = [d \in DOMAIN devices \ {device} |-> devices[d]]
           /\ Reply(route, cookie, args, ran, WriteJSON(200, "Device deleted", {}))
           /\ UNCHANGED <<customers, sites, authTokens, issued, history>>

DeviceDeleteHandler(cookie, ctx, ran) ==
    \E serialNumber \in SerialNumbers \cup {UnknownSerial} :
      LET route == "DELETE /devices/:device_serial_number"
          args == [NoArgs EXCEPT !.serial = serialNumber]
          device == FetchDeviceBySerialNumber(serialNumber)
      IN
      IF device = ErrRecordNotFound
      THEN /\ Reply(route, cookie, args, ran,
                    WriteError(404, "Device not found",
                               "No device found with the given serial number"))
           /\ UNCHANGED <<db, issued, history>>
      ELSE \* UPDATE devices SET deleted_at = now WHERE id = ? AND deleted_at IS NULL
           /\ devices' = [devices EXCEPT ![device].deleted = TRUE]
           /\ Reply(route, cookie, args, ran, WriteJSON(200, "Device deleted", {}))
           /\ UNCHANGED <<customers, sites, authTokens, issued, history>>

DeviceDelete ==
    \/ ProtectedRejects("DELETE /devices/:device_serial_number", TRUE)
    \/ \E cookie \in Cookies :
         /\ ProtectedAdmits(cookie, TRUE)
         /\ DeviceDeleteHandler(cookie, AuthMiddleware(cookie).ctx, Stages(TRUE))

(***************************************************************************)
(* The process: main, Engine.Run, the shutdown goroutine, the watcher.     *)
(***************************************************************************)
\* main up to the creation of the Engine: wg.Add(1) is done and
\* signal.NotifyContext has registered the three signals.
InitLifecycle ==
    /\ customers = [c \in {} |-> None]
    /\ sites = [s \in {} |-> None]
    /\ devices = [d \in {} |-> None]
    /\ authTokens = {}
    /\ issued = {}
    /\ exchange = Idle
    /\ history = [on |-> FALSE, creates |-> {}]
    /\ pending = NoPending
    /\ mainPC = "main"
    /\ shutdownPC = "unborn"
    /\ watcherPC = "unborn"
    /\ server = "idle"
    /\ ctxDone = FALSE
    /\ signalled = FALSE
    /\ stopFile \in BOOLEAN
    /\ stopFileChan = "open"
    /\ wg = 1
    /\ appState = [status |-> "", ended |-> FALSE]

\* The process has not exited: its goroutines run and it receives signals.
Alive == mainPC # "exited"

\* Variant: the select of the shutdown goroutine has only the stop file case.
ShutdownRequestedStopFileOnly == stopFileChan = "closed"

\* select { case <-ctx.Done(): ... case <-svc.StopFileDetected(): ... } can proceed.
ShutdownRequested == ctxDone \/ stopFileChan = "closed"

\* main: go func() { ... }() starts the shutdown goroutine.
MainSpawn ==
    /\ mainPC = "main"
    /\ mainPC' = "run"
    /\ shutdownPC' = "select"
    /\ UNCHANGED <<api, watcherPC, server, ctxDone, signalled, stopFile, stopFileChan,
                   wg, appState>>

\* Engine.Run up to e.start(): the tmp directory, startTime, app.status "running".
RunBegin ==
    /\ mainPC = "run"
    /\ mainPC' = "start"
    /\ appState' = [appState EXCEPT !.status = "running"]
    /\ UNCHANGED <<api, shutdownPC, watcherPC, server, ctxDone, signalled, stopFile,
                   stopFileChan, wg>>

\* Engine.start: WatchStopFile starts the watcher, go server.Start() the listener.
EngineStart ==
    /\ mainPC = "start"
    /\ mainPC' = "wait"
    /\ watcherPC' = "poll"
    /\ server' = "starting"
    /\ UNCHANGED <<api, shutdownPC, ctxDone, signalled, stopFile, stopFileChan, wg,
                   appState>>

\* APIServer.Start: routes set up, ListenAndServeTLS accepts.
ServerStart ==
    /\ Alive
    /\ server = "starting"
    /\ server' = "listening"
    /\ UNCHANGED <<api, mainPC, shutdownPC, watcherPC, ctxDone, signalled, stopFile,
                   stopFileChan, wg, appState>>

\* Engine.Run: <-e.ctx.Done() returns.
RunWait ==
    /\ mainPC = "wait"
    /\ ctxDone
    /\ mainPC' = "cleanup"
    /\ UNCHANGED <<api, shutdownPC, watcherPC, server, ctxDone, signalled, stopFile,
                   stopFileChan, wg, appState>>

\* Engine.Cleanup, deferred by Run: the tmp directory is removed; Run returns.
Cleanup ==
    /\ mainPC = "cleanup"
    /\ mainPC' = "wg_wait"
    /\ UNCHANGED <<api, shutdownPC, watcherPC, server, ctxDone, signalled, stopFile,
                   stopFileChan, wg, appState>>

\* main: wg.Wait() returns, main returns and the process exits with its
\* goroutines (the listener is never shut down, it ends with the process).
MainExit ==
    /\ mainPC = "wg_wait"
    /\ wg = 0
    /\ mainPC' = "exited"
    /\ server' = "idle"
    /\ UNCHANGED <<api, shutdownPC, watcherPC, ctxDone, signalled, stopFile,
                   stopFileChan, wg, appState>>

\* The shutdown goroutine leaves its select.
ShutdownSelect ==
    /\ Alive
    /\ shutdownPC = "select"
    /\ ShutdownRequested
    /\ shutdownPC' = "stop"
    /\ UNCHANGED <<api, mainPC, watcherPC, server, ctxDone, signalled, stopFile,
                   stopFileChan, wg, appState>>

\* Engine.Stop: endTime, duration, the two lines of the connections log.
StopBegin ==
    /\ Alive
    /\ shutdownPC = "stop"
    /\ shutdownPC' = "stop_status"
    /\ UNCHANGED <<api, mainPC, watcherPC, server, ctxDone, signalled, stopFile,
                   stopFileChan, wg, appState>>

\* Engine.Stop: statePersister.Set("app.status", "stopped").
StopStatus ==
    /\ Alive
    /\ shutdownPC = "stop_status"
    /\ shutdownPC' = "stop_times"
    /\ appState' = [appState EXCEPT !.status = "stopped"]
    /\ UNCHANGED <<api, mainPC, watcherPC, server, ctxDone, signalled, stopFile,
                   stopFileChan, wg>>

\* Engine.Stop: app.end_time and app.duration are set; Stop returns.
StopTimes ==
    /\ Alive
    /\ shutdownPC = "stop_times"
    /\ shutdownPC' = "cancel"
    /\ appState' = [appState EXCEPT !.ended = TRUE]
    /\ UNCHANGED <<api, mainPC, watcherPC, server, ctxDone, signalled, stopFile,
                   stopFileChan, wg>>

\* The shutdown goroutine: stop() cancels ctx.
ShutdownCancel ==
    /\ Alive
    /\ shutdownPC = "cancel"
    /\ shutdownPC' = "return"
    /\ ctxDone' = TRUE
    /\ UNCHANGED <<api, mainPC, watcherPC, server, signalled, stopFile, stopFileChan,
                   wg, appState>>

\* The shutdown goroutine returns: the deferred wg.Done().
ShutdownDone ==
    /\ Alive
    /\ shutdownPC = "return"
    /\ shutdownPC' = "done"
    /\ wg' = wg - 1
    /\ UNCHANGED <<api, mainPC, watcherPC, server, ctxDone, signalled, stopFile,
                   stopFileChan, appState>>

\* WatchStopFile, one turn of the loop: return if the channel is closed, close
\* it and return if os.Stat finds the stop file, sleep a second otherwise.
WatchPoll ==
    /\ Alive
    /\ watcherPC = "poll"
    /\ IF stopFileChan = "closed"
       THEN watcherPC' = "returned" /\ UNCHANGED stopFileChan
       ELSE IF stopFile
       THEN watcherPC' = "returned" /\ stopFileChan' = "closed"
       ELSE watcherPC' = "sleep" /\ UNCHANGED stopFileChan
    /\ UNCHANGED <<api, mainPC, shutdownPC, server, ctxDone, signalled, stopFile, wg,
                   appState>>

\* WatchStopFile: time.Sleep(1 * time.Second) is over.
WatchSleep ==
    /\ Alive
    /\ watcherPC = "sleep"
    /\ watcherPC' = "poll"
    /\ UNCHANGED <<api, mainPC, shutdownPC, server, ctxDone, signalled, stopFile,
                   stopFileChan, wg, appState>>

\* The first SIGINT, SIGTERM or SIGHUP while signal.NotifyContext holds the
\* registration: the context is cancelled.
SignalDelivered ==
    /\ Alive
    /\ ~ctxDone
    /\ signalled' = TRUE
    /\ ctxDone' = TRUE
    /\ UNCHANGED <<api, mainPC, shutdownPC, watcherPC, server, stopFile, stopFileChan,
                   wg, appState>>

\* An operator creates or removes the stop file.
StopFileChanged ==
    /\ Alive
    /\ stopFile' = ~stopFile
    /\ UNCHANGED <<api, mainPC, shutdownPC, watcherPC, server, ctxDone, signalled,
                   stopFileChan, wg, appState>>

MainStep == MainSpawn \/ RunBegin \/ EngineStart \/ RunWait \/ Cleanup \/ MainExit

ShutdownStep ==
    ShutdownSelect \/ StopBegin \/ StopStatus \/ StopTimes \/ ShutdownCancel \/ ShutdownDone

WatcherStep == WatchPoll \/ WatchSleep

NextLifecycle ==
    \/ MainSpawn
    \/ RunBegin
    \/ EngineStart
    \/ ServerStart
    \/ RunWait
    \/ Cleanup
    \/ MainExit
    \/ ShutdownSelect
    \/ StopBegin
    \/ StopStatus
    \/ StopTimes
    \/ ShutdownCancel
    \/ ShutdownDone
    \/ WatchPoll
    \/ WatchSleep
    \/ SignalDelivered
    \/ StopFileChanged

SpecLifecycle == InitLifecycle /\ [][NextLifecycle]_vars

\* The Go scheduler runs every goroutine that can take a step; signals and
\* the stop file are the environment's and come when they come.
SpecLifecycleLive ==
    /\ InitLifecycle
    /\ [][NextLifecycle]_vars
    /\ WF_vars(MainStep)
    /\ WF_vars(ShutdownStep)
    /\ WF_vars(WatcherStep)
    /\ WF_vars(ServerStart)

(***************************************************************************)
(* The resource specification: every route of the API.                     *)
(***************************************************************************)
Next ==
    \/ GenerateAdminTokenHandler
    \/ GenerateTokenHandler(MaxSessions)
    \/ CustomerCreate
    \/ CustomerFetchAll
    \/ CustomerFetchByID
    \/ CustomerUpdate
    \/ CustomerDelete
    \/ SiteCreate
    \/ SiteFetchAll
    \/ SiteFetchByID
    \/ SiteFetchByCustomerID
    \/ SiteUpdate
    \/ SiteDelete
    \/ DeviceCreate
    \/ DeviceFetchAll
    \/ DeviceFetchByCustomerID
    \/ DeviceFetchBySiteID
    \/ DeviceFetchBySerialNumber
    \/ DeviceUpdate
    \/ DeviceDelete
    \/ RequestCompleted

Spec == Init /\ [][Next]_vars

(***************************************************************************)
(* The session specification: token issuance, deletion of auth_tokens      *)
(* rows, POST /authenticate, and the customer routes the tokens are        *)
(* presented to.                                                           *)
(***************************************************************************)
NextSessions ==
    \/ GenerateAdminTokenHandler
    \/ GenerateTokenHandler(MaxTokens)
    \/ AuthTokenDeleted
    \/ AuthenticateHandler
    \/ CustomerCreate
    \/ CustomerFetchAll
    \/ CustomerFetchByID
    \/ CustomerUpdate
    \/ CustomerDelete
    \/ RequestCompleted

SpecSessions == Init /\ [][NextSessions]_vars

(***************************************************************************)
(* The issuance specification: the token endpoints, and the customer       *)
(* routes that give a customer its name and change it.                     *)
(***************************************************************************)
NextIssuance ==
    \/ GenerateAdminTokenHandler
    \/ GenerateTokenHandler(MaxTokens)
    \/ CustomerCreate
    \/ CustomerUpdate
    \/ RequestCompleted

SpecIssuance == Init /\ [][NextIssuance]_vars

(***************************************************************************)
(* The customer specification: the customer routes, with the history of    *)
(* creates recorded.                                                       *)
(***************************************************************************)
InitCustomers ==
    /\ customers = [c \in {} |-> None]
    /\ sites = [s \in {} |-> None]
    /\ devices = [d \in {} |-> None]
    /\ authTokens = {}
    /\ issued = {}
    /\ exchange = Idle
    /\ history = [on |-> TRUE, creates |-> {}]
    /\ pending = NoPending
    /\ Serving

NextCustomers ==
    \/ GenerateAdminTokenHandler
    \/ CustomerCreate
    \/ CustomerFetchAll
    \/ CustomerFetchByID
    \/ CustomerUpdate
    \/ CustomerDelete
    \/ RequestCompleted

SpecCustomers == InitCustomers /\ [][NextCustomers]_vars

(***************************************************************************)
(* The device specification: the device mutations under an admin session,  *)
(* started on a database that holds a customer with two sites.             *)
(***************************************************************************)
InitDevices ==
    /\ customers = ("c1" :> [name |-> "Acme", deleted |-> FALSE])
    /\ sites = ("s1" :> [name |-> "Main", customer_id |-> "c1", deleted |-> FALSE]) @@
               ("s2" :> [name |-> "Annex", customer_id |-> "c1", deleted |-> FALSE])
    /\ devices = [d \in {} |-> None]
    /\ authTokens = {}
    /\ issued = {}
    /\ exchange = Idle
    /\ history = [on |-> FALSE, creates |-> {}]
    /\ pending = NoPending
    /\ Serving

NextDevices ==
    \/ GenerateAdminTokenHandler
    \/ DeviceCreate
    \/ DeviceUpdate
    \/ DeviceDelete
    \/ RequestCompleted

SpecDevices == InitDevices /\ [][NextDevices]_vars

(***************************************************************************)
(* The concurrency specification: POST /customers served by the goroutines *)
(* of Requests, each between its two database calls free to be overtaken,  *)
(* next to the token endpoint and DELETE /customers/:customer_id.          *)
(***************************************************************************)
\* CustomerCreate up to the lookup by name: the chain admitted the request,
\* the body has a name, FetchCustomerByName returned.
CustomerCreateLookup(r) ==
    /\ server = "listening"
    /\ pending[r].pc = "idle"
    /\ \E cookie \in Cookies :
         /\ AuthMiddleware(cookie).ok
         /\ AdminOnlyMiddleware(AuthMiddleware(cookie).ctx)
    /\ \E name \in CustomerNames :
         LET customer == FetchCustomerByName(name) IN
         pending' = [pending EXCEPT ![r] =
                        [pc |-> "found", name |-> name, customer |-> customer,
                         deleted |-> IF customer = ErrRecordNotFound THEN FALSE
                                     ELSE customers[customer].deleted,
                         resp |-> WriteJSON(0, "", {})]]
    /\ UNCHANGED <<db, issued, exchange, history, lifecycle>>

\* CustomerCreate from the lookup's result on: Create of a new row, or
\* Unscoped().Save of the row as it was loaded with the delete marker
\* cleared, or the conflict.
CustomerCreateWrite(r) ==
    LET p == pending[r]
        Done(resp) == pending' = [pending EXCEPT ![r].pc = "done", ![r].resp = resp]
    IN
    /\ server = "listening"
    /\ p.pc = "found"
    /\ IF p.customer = ErrRecordNotFound
       THEN \E id \in CustomerIDs \ DOMAIN customers :
              /\ customers' = customers @@ (id :> [name |-> p.name, deleted |-> FALSE])
              /\ Done(WriteJSON(201, "Customer created", {CustomerData(id, p.name)}))
       ELSE IF p.deleted
       THEN /\ customers' = [customers EXCEPT ![p.customer] =
                                [name |-> p.name, deleted |-> FALSE]]
            /\ Done(WriteJSON(200, "Customer restored", {CustomerData(p.customer, p.name)}))
       ELSE /\ Done(WriteError(400, "Customer already exists",
                               "A customer with this name already exists"))
            /\ UNCHANGED customers
    /\ UNCHANGED <<sites, devices, authTokens, issued, exchange, history, lifecycle>>

\* The response is written and the goroutine is free for the next request.
CustomerCreateReturn(r) ==
    /\ pending[r].pc = "done"
    /\ pending' = [pending EXCEPT ![r] = IdleRequest]
    /\ UNCHANGED <<db, issued, exchange, history, lifecycle>>

NextConcurrent ==
    \/ GenerateAdminTokenHandler
    \/ CustomerDelete
    \/ RequestCompleted
    \/ \E r \in Requests : CustomerCreateLookup(r)
    \/ \E r \in Requests : CustomerCreateWrite(r)
    \/ \E r \in Requests : CustomerCreateReturn(r)

SpecConcurrent == Init /\ [][NextConcurrent]_vars

(***************************************************************************)
(* Properties.  An exchange in flight holds the request, the stages that   *)
(* ran and the response; a read leaves the tables as they were, so a state *)
(* predicate on `exchange` and the tables speaks of the state the request  *)
(* was served in.  Properties of a mutation compare the two states of the  *)
(* step that serves the request.                                           *)
(***************************************************************************)
\* protectedGroup, as setupRoutes registers it.
SessionRoutes ==
    {"POST /customers", "GET /customers", "GET /customers/:customer_id",
     "PUT /customers/:customer_id", "DELETE /customers/:customer_id",
     "POST /customers/:customer_id/sites", "GET /customers/:customer_id/sites",
     "GET /sites", "GET /sites/:site_id", "PUT /sites/:site_id", "DELETE /sites/:site_id",
     "POST /customers/:customer_id/sites/:site_id/devices", "GET /devices",
     "GET /customers/:customer_id/devices", "GET /sites/:site_id/devices",
     "GET /devices/:device_serial_number", "PUT /devices/:device_serial_number",
     "DELETE /devices/:device_serial_number"}

\* POST, PUT and DELETE on customers, sites and devices.
MutationRoutes ==
    {"POST /customers", "PUT /customers/:customer_id", "DELETE /customers/:customer_id",
     "POST /customers/:customer_id/sites", "PUT /sites/:site_id", "DELETE /sites/:site_id",
     "POST /customers/:customer_id/sites/:site_id/devices",
     "PUT /devices/:device_serial_number", "DELETE /devices/:device_serial_number"}

\* adminGroup.
AdminRoutes == {"POST /admin/generate-admin-token", "POST /admin/generate-token"}

\* The fetch routes whose handlers compare the requester with the owner.
OwnershipCheckedRoutes ==
    {"GET /sites/:site_id", "GET /customers/:customer_id/sites",
     "GET /customers/:customer_id/devices", "GET /devices/:device_serial_number"}

\* The request in flight was served by a step from an idle server.
Served == exchange.route = None /\ exchange'.route # None

\* The caller passed session binding with a role other than admin.
BoundNonAdmin(x) == "auth" \in x.ran /\ x.ran # {"auth"} /\ x.cookie.role # "admin"

\* The Customer that owns the resource an ownership-checked fetch names.
TargetOwner(x) ==
    CASE x.route = "GET /sites/:site_id" -> SiteOwner(x.args.site_id)
      [] x.route = "GET /devices/:device_serial_number" ->
            DeviceOwner(FetchDeviceBySerialNumber(x.args.serial))
      [] OTHER -> x.args.customer_id

\* C1 (as claimed): no caller whose session role is not admin receives a 200
\* whose data holds a Site or a Device owned by a Customer other than the
\* caller's subject Customer.
C1_NoForeignResourceServed ==
    (BoundNonAdmin(exchange) /\ exchange.resp.status = 200) =>
        \A e \in exchange.resp.data :
            /\ e.kind = "site" => SiteOwner(e.id) = exchange.cookie.user_id
            /\ e.kind = "device" => DeviceOwner(e.id) = exchange.cookie.user_id

\* C2 (as claimed): on an ownership-checked fetch route a non-admin caller
\* bound to Customer C, naming an existing target, receives 403 exactly when
\* the target's owning Customer is not C, and 200 when it is C.
C2_OwnershipDecidesFetch ==
    (/\ exchange.route \in OwnershipCheckedRoutes
     /\ BoundNonAdmin(exchange)
     /\ exchange.resp.status \notin {400, 404}) =>
        /\ exchange.resp.status = 403 <=> TargetOwner(exchange) # exchange.cookie.user_id
        /\ TargetOwner(exchange) = exchange.cookie.user_id => exchange.resp.status = 200

\* C3: a non-admin caller fetching GET /customers/:id for a well-formed id
\* other than its own subject id receives the same 403 response whether the
\* Customer with that id is active, soft-deleted or was never created.
C3_ForeignCustomerFetchForbidden ==
    (/\ exchange.route = "GET /customers/:customer_id"
     /\ BoundNonAdmin(exchange)
     /\ IsValidUUID(exchange.args.customer_id)
     /\ exchange.args.customer_id # exchange.cookie.user_id) =>
        exchange.resp = WriteError(403, "Forbidden", "Unauthorized access")

\* C3: a non-admin caller has asked for another Customer, one that is
\* soft-deleted, and was answered 403.
C3_Witness ==
    /\ exchange.route = "GET /customers/:customer_id"
    /\ BoundNonAdmin(exchange)
    /\ exchange.args.customer_id # exchange.cookie.user_id
    /\ exchange.args.customer_id \in DOMAIN customers
    /\ customers[exchange.args.customer_id].deleted
    /\ exchange.resp.status = 403

\* C4 (as claimed): a token of role "user" whose own auth_tokens row has been
\* deleted is answered 401 on every session-gated route, whatever other rows
\* exist.
C4_TokenOfDeletedRowRejected ==
    (/\ exchange.route \in SessionRoutes
     /\ exchange.cookie \in issued
     /\ exchange.cookie.role = "user"
     /\ \E t \in authTokens : t.token = exchange.cookie /\ t.deleted) =>
        exchange.resp.status = 401

\* C5: a request with a token this server signed, of a role other than admin,
\* gets past session binding if and only if a persisted auth_tokens row
\* carries the token's (subject, action); with no such row the response is
\* 401 and no later stage runs.
C5_SessionBoundIffRowMatches ==
    (/\ exchange.route \in SessionRoutes
     /\ exchange.cookie \in issued
     /\ exchange.cookie.role # "admin") =>
        LET rowExists ==
                \E t \in authTokens : /\ ~t.deleted
                                      /\ t.customer_id = exchange.cookie.user_id
                                      /\ t.action = exchange.cookie.action
        IN /\ exchange.ran # {"auth"} <=> rowExists
           /\ ~rowExists => exchange.resp.status = 401 /\ exchange.ran = {"auth"}

\* C5: a signed user token was presented while the only persisted row of its
\* customer carries another action, and was refused.
C5_Witness ==
    /\ exchange.route \in SessionRoutes
    /\ exchange.cookie \in issued
    /\ exchange.cookie.role # "admin"
    /\ \E t \in authTokens : /\ ~t.deleted
                             /\ t.customer_id = exchange.cookie.user_id
                             /\ t.action # exchange.cookie.action
    /\ exchange.resp.status = 401

\* C6: on a session-gated route a request with no Authorization cookie, or
\* with a token this server did not sign, is answered 401, only the session
\* middleware runs, and every table is left as it was.
C6_UnauthenticatedHalts ==
    [][(/\ Served
        /\ exchange'.route \in SessionRoutes
        /\ exchange'.cookie \notin issued) =>
           /\ exchange'.resp.status = 401
           /\ exchange'.ran = {"auth"}
           /\ db' = db]_vars

\* C6: a forged admin token was presented to a mutation route while rows
\* exist, and was refused.
C6_Witness ==
    /\ exchange.route = "DELETE /customers/:customer_id"
    /\ exchange.cookie \in ForgedTokens
    /\ exchange.resp.status = 401
    /\ LiveCustomers # {}

\* C7: a mutation route answers 403 to a request bound to a role other than
\* admin, and the request changes no customers, sites or devices row.
C7_MutationRoutesAdminOnly ==
    [][(/\ Served
        /\ exchange'.route \in MutationRoutes
        /\ BoundNonAdmin(exchange')) =>
           /\ exchange'.resp.status = 403
           /\ <<customers, sites, devices>>' = <<customers, sites, devices>>]_vars

\* C7: a caller of role "user" asked to delete a site that exists and was
\* answered 403.
C7_Witness ==
    /\ exchange.route = "DELETE /sites/:site_id"
    /\ BoundNonAdmin(exchange)
    /\ exchange.resp.status = 403
    /\ LiveSites # {}

\* C8: a token endpoint whose Admin-Secret header is not the configured
\* secret answers 401, returns no token, signs none and inserts no
\* auth_tokens row, whatever cookie comes with the request; so a token is
\* returned or a row created only under the configured secret.
C8_IssuanceNeedsAdminSecret ==
    [][(/\ Served
        /\ exchange'.route \in AdminRoutes
        /\ exchange'.args.secret # AdminSecret) =>
           /\ exchange'.resp.status = 401
           /\ exchange'.resp.token = NoToken
           /\ issued' = issued
           /\ authTokens' = authTokens]_vars

\* C8: a request for a customer token came with a valid admin session cookie
\* and a wrong Admin-Secret, for a customer that exists, and was answered 401.
C8_Witness ==
    /\ exchange.route = "POST /admin/generate-token"
    /\ exchange.args.secret = "guess"
    /\ exchange.cookie \in issued
    /\ exchange.cookie.role = "admin"
    /\ LiveCustomers # {}
    /\ exchange.resp.status = 401

\* The outcome of a restore: 200 with the row's own id, the row's delete
\* marker cleared, nothing else in the table changed, no row added.
Restored(table, tableAfter, id, x) ==
    /\ x.resp.status = 200
    /\ {e.id : e \in x.resp.data} = {id}
    /\ tableAfter = [table EXCEPT ![id].deleted = FALSE]

\* A create request reached its handler.
CreateServed(route) ==
    Served /\ exchange'.route = route /\ "handler" \in exchange'.ran

\* The path of the create request names the parents a create needs: for a
\* Site a non-deleted Customer, for a Device a non-deleted Customer and a
\* non-deleted Site of that Customer.
SiteParentInPlace == exchange'.args.customer_id \in LiveCustomers

DeviceParentsInPlace ==
    /\ exchange'.args.customer_id \in LiveCustomers
    /\ exchange'.args.site_id \in LiveSites
    /\ sites[exchange'.args.site_id].customer_id = exchange'.args.customer_id

\* C9 (as claimed, the parents of the create in place): a create request with
\* the natural key of a soft-deleted Customer, Site or Device answers 200 with
\* that row's UUID, clears its delete marker and adds no row.
C9_CreateAfterDeleteRestores ==
    [][/\ CreateServed("POST /customers") =>
             \A c \in DOMAIN customers :
                (customers[c].deleted /\ customers[c].name = exchange'.args.name) =>
                    Restored(customers, customers', c, exchange')
       /\ (CreateServed("POST /customers/:customer_id/sites") /\ SiteParentInPlace) =>
             \A s \in DOMAIN sites :
                (sites[s].deleted /\ sites[s].name = exchange'.args.name) =>
                    Restored(sites, sites', s, exchange')
       /\ (CreateServed("POST /customers/:customer_id/sites/:site_id/devices")
             /\ DeviceParentsInPlace) =>
             \A d \in DOMAIN devices :
                (devices[d].deleted /\ devices[d].serial = exchange'.args.body_serial) =>
                    Restored(devices, devices', d, exchange')]_vars

\* C9 (amended): the same, when the soft-deleted row is the only row, deleted
\* or not, that carries the natural key.
C9_RestoreOnCreate ==
    [][/\ CreateServed("POST /customers") =>
             \A c \in DOMAIN customers :
                (/\ customers[c].deleted
                 /\ {k \in DOMAIN customers : customers[k].name = exchange'.args.name} = {c}) =>
                    Restored(customers, customers', c, exchange')
       /\ (CreateServed("POST /customers/:customer_id/sites") /\ SiteParentInPlace) =>
             \A s \in DOMAIN sites :
                (/\ sites[s].deleted
                 /\ {k \in DOMAIN sites : sites[k].name = exchange'.args.name} = {s}) =>
                    Restored(sites, sites', s, exchange')
       /\ (CreateServed("POST /customers/:customer_id/sites/:site_id/devices")
             /\ DeviceParentsInPlace) =>
             \A d \in DOMAIN devices :
                (/\ devices[d].deleted
                 /\ {k \in DOMAIN devices : devices[k].serial = exchange'.args.body_serial} = {d}) =>
                    Restored(devices, devices', d, exchange')]_vars

\* C9: a device has been restored by a create request.
C9_Witness ==
    /\ exchange.route = "POST /customers/:customer_id/sites/:site_id/devices"
    /\ exchange.resp.status = 200
    /\ exchange.resp.message = "Device restored"
    /\ \E d \in LiveDevices : exchange.resp.data = {DeviceData(d, SiteOwner(devices[d].site_id),
                                                               devices[d].site_id)}

\* C10 (as claimed): a create request with a name that an earlier create
\* request succeeded with, the customer of that earlier request not deleted
\* since, is answered 400 and changes no row.
C10_SecondCreateConflicts ==
    [][(/\ CreateServed("POST /customers")
        /\ \E r \in history.creates : r.name = exchange'.args.name) =>
           /\ exchange'.resp.status = 400
           /\ db' = db]_vars

\* C10 (amended): the same, when no customer was renamed or deleted between
\* the two create requests.
C10_SecondCreateConflictsUnchanged ==
    [][(/\ CreateServed("POST /customers")
        /\ \E r \in history.creates : r.name = exchange'.args.name /\ ~r.changed) =>
           /\ exchange'.resp.status = 400
           /\ db' = db]_vars

\* C10: a second create request with the name of an earlier one, no customer
\* changed in between, was answered 400.
C10_Witness ==
    /\ exchange.route = "POST /customers"
    /\ "handler" \in exchange.ran
    /\ \E r \in history.creates : r.name = exchange.args.name /\ ~r.changed
    /\ exchange.resp.status = 400

\* The request reached its handler with a session of role admin.
AdminServed(x) == "handler" \in x.ran /\ x.cookie.role = "admin"

\* C11: for an admin caller GET /devices/:serial answers 200 with the device
\* for every serial number that a row carries, soft-deleted or not, and 404
\* only when no row carries the serial number.
C11_SoftDeletedDeviceFound ==
    (/\ exchange.route = "GET /devices/:device_serial_number"
     /\ AdminServed(exchange)) =>
        LET rows == {d \in DOMAIN devices : devices[d].serial = exchange.args.serial} IN
        /\ rows # {} => /\ exchange.resp.status = 200
                        /\ \E d \in rows : {e.id : e \in exchange.resp.data} = {d}
        /\ rows = {} => exchange.resp.status = 404

\* C11: an admin caller asked for the serial number of a soft-deleted device
\* and was answered 200.
C11_Witness ==
    /\ exchange.route = "GET /devices/:device_serial_number"
    /\ AdminServed(exchange)
    /\ \E d \in DOMAIN devices : devices[d].serial = exchange.args.serial /\ devices[d].deleted
    /\ exchange.resp.status = 200

\* C12 (as claimed): in every reachable state no two non-deleted Customers
\* share a name, no two non-deleted Sites share a name, and no two Device
\* rows, soft-deleted or not, share a serial number.
C12_NaturalKeysUnique ==
    /\ \A c1, c2 \in LiveCustomers : customers[c1].name = customers[c2].name => c1 = c2
    /\ \A s1, s2 \in LiveSites : sites[s1].name = sites[s2].name => s1 = s2
    /\ \A d1, d2 \in DOMAIN devices : devices[d1].serial = devices[d2].serial => d1 = d2

DeleteRoutes ==
    {"DELETE /customers/:customer_id", "DELETE /sites/:site_id",
     "DELETE /devices/:device_serial_number"}

\* The table after the step is the table before it with, at most, the delete
\* marker of row id set.
MarkedDeleted(table, tableAfter, id) ==
    /\ DOMAIN tableAfter = DOMAIN table
    /\ \A k \in DOMAIN table :
         tableAfter[k] = IF k = id THEN [table[k] EXCEPT !.deleted = TRUE] ELSE table[k]

\* C13: no step removes a Customer, Site or Device row, and a DELETE request
\* answered 200 changes nothing but the delete marker of its target.
C13_DeleteIsSoft ==
    [][/\ DOMAIN customers \subseteq DOMAIN customers'
       /\ DOMAIN sites \subseteq DOMAIN sites'
       /\ DOMAIN devices \subseteq DOMAIN devices'
       /\ (Served /\ exchange'.route \in DeleteRoutes /\ exchange'.resp.status = 200) =>
            /\ MarkedDeleted(customers, customers', exchange'.args.customer_id)
            /\ MarkedDeleted(sites, sites', exchange'.args.site_id)
            /\ MarkedDeleted(devices, devices',
                             FetchDeviceBySerialNumber(exchange'.args.serial))
            /\ authTokens' = authTokens]_vars

\* C13: a device has been deleted by a DELETE request and its row is still in
\* the table, marked.
C13_Witness ==
    /\ exchange.route = "DELETE /devices/:device_serial_number"
    /\ exchange.resp.status = 200
    /\ \E d \in DOMAIN devices : devices[d].serial = exchange.args.serial /\ devices[d].deleted

\* C14: no step changes the Customer reference of a Site row or the Site
\* reference of a Device row.
C14_ParentReferencesImmutable ==
    [][/\ \A s \in DOMAIN sites :
            s \in DOMAIN sites' /\ sites'[s].customer_id = sites[s].customer_id
       /\ \A d \in DOMAIN devices :
            d \in DOMAIN devices' /\ devices'[d].site_id = devices[d].site_id]_vars

\* C14: a site has been restored by a create request under another customer
\* than the one it references, and references the same customer as before.
C14_Witness ==
    /\ exchange.route = "POST /customers/:customer_id/sites"
    /\ exchange.resp.message = "Site restored"
    /\ \E s \in LiveSites : /\ {e.id : e \in exchange.resp.data} = {s}
                            /\ sites[s].customer_id # exchange.args.customer_id

\* C15 (as claimed): an admin DELETE request for a well-formed Customer id or
\* Site id, or for a serial number, that no row carries is answered 404 and
\* changes no table.
C15_DeleteOfMissingRowNotFound ==
    [][(/\ Served
        /\ AdminServed(exchange')
        /\ \/ /\ exchange'.route = "DELETE /customers/:customer_id"
              /\ exchange'.args.customer_id \in CustomerIDs \ DOMAIN customers
           \/ /\ exchange'.route = "DELETE /sites/:site_id"
              /\ exchange'.args.site_id \in SiteIDs \ DOMAIN sites
           \/ /\ exchange'.route = "DELETE /devices/:device_serial_number"
              /\ \A d \in DOMAIN devices : devices[d].serial # exchange'.args.serial) =>
           /\ exchange'.resp.status = 404
           /\ db' = db]_vars

ErrorStatuses == {400, 401, 403, 404, 405, 500}

\* C16 (as claimed): every response with an error status is the uniform
\* envelope (the Response struct, whose status field is the HTTP status).
C16_ErrorsUseEnvelope ==
    exchange.resp.status \in ErrorStatuses => exchange.resp.envelope

\* Arguments for GenerateJWT: well-formed and malformed subjects, names that
\* match the pattern, are too short, too long or hold another character,
\* roles and actions inside and outside the lists.
JWTSubjects == {"c1", "a1", MalformedID, ""}
JWTNames == {"Acme", "Bo", "Ac-e", "AAAAAAAAAAAAAAAAAAAAA"}
JWTRoles == roles \cup {"root"}
JWTActions == actions \cup {"DROP"}

\* C17: GenerateJWT returns an error and no token when the subject is not a
\* UUID, the name does not match the pattern, the role is not admin or user
\* or the action is not allowed; POST /admin/generate-token for an existing
\* Customer whose name does not match returns no token; and no token signed
\* or persisted carries a subject, name, role or action that is not valid.
C17_NoTokenFromInvalidInput ==
    /\ \A userID \in JWTSubjects, username \in JWTNames, role \in JWTRoles,
          action \in JWTActions :
         LET jwt == GenerateJWT(userID, username, role, action) IN
         (\/ ~IsValidUUID(userID) \/ ~IsValidString(username)
          \/ ~IsValidRole(role) \/ ~IsValidAction(action)) =>
            jwt.token = NoToken /\ jwt.err # ""
    /\ (/\ exchange.route = "POST /admin/generate-token"
        /\ "handler" \in exchange.ran
        /\ exchange.args.customer_id \in LiveCustomers
        /\ ~IsValidString(customers[exchange.args.customer_id].name)) =>
            /\ exchange.resp.token = NoToken
            /\ exchange.resp.status \in {400, 500}
    /\ \A t \in issued \cup {r.token : r \in authTokens} :
         /\ IsValidUUID(t.user_id) /\ IsValidString(t.user_name)
         /\ IsValidRole(t.role) /\ IsValidAction(t.action)

\* C17: a token was requested, with a valid body, for an existing customer
\* whose name is too short, and none was returned.
C17_Witness ==
    /\ exchange.route = "POST /admin/generate-token"
    /\ exchange.args.customer_id \in LiveCustomers
    /\ customers[exchange.args.customer_id].name = "Bo"
    /\ IsValidAction(exchange.args.action)
    /\ exchange.resp = WriteError(500, "Failed to generate token", "invalid username")

\* Engine.Stop has returned.
StopCompleted == shutdownPC \in {"cancel", "return", "done"}

\* Engine.Run has left <-e.ctx.Done().
RunReturning == mainPC \in {"cleanup", "wg_wait", "exited"}

\* C18 (as claimed): the context is cancelled only after Engine.Stop has
\* completed, and Run returns only after the context is cancelled.
C18_StopBeforeCancel ==
    /\ ctxDone => StopCompleted
    /\ RunReturning => ctxDone

\* A shutdown trigger has occurred: a signal was delivered, or the watcher
\* found the stop file at a poll.
Triggered == signalled \/ stopFileChan = "closed"

\* main has returned after Engine.Stop, the cancellation, Cleanup and wg.Done().
Terminated ==
    /\ mainPC = "exited"
    /\ shutdownPC = "done"
    /\ appState.ended
    /\ ctxDone
    /\ wg = 0

C20_CreateBindsPathParent ==
    /\ (/\ exchange.route = "POST /customers/:customer_id/sites"
        /\ exchange.resp.status = 200) =>
          \E s \in LiveSites :
            /\ sites[s].name = exchange.args.name
            /\ sites[s].customer_id = exchange.args.customer_id
            /\ exchange.resp.data = {SiteData(s, exchange.args.customer_id)}
    /\ (/\ exchange.route = "POST /customers/:customer_id/sites/:site_id/devices"
        /\ exchange.resp.status = 200) =>
          \E d \in LiveDevices :
            /\ devices[d].serial = exchange.args.body_serial
            /\ devices[d].site_id = exchange.args.site_id
            /\ exchange.resp.data =
                 {DeviceData(d, exchange.args.customer_id, exchange.args.site_id)}

\* C21: a create request that passed validation (well-formed path ids, a
\* body the handler accepts) is answered 404 when the path Customer is
\* missing or soft-deleted (Site and Device create) or the path Site is
\* missing or soft-deleted (Device create), and 403 when the path Site is a
\* non-deleted Site of another Customer; in each case no table changes: no
\* row is inserted and no soft-deleted row is restored.
C21_CreateUnderMissingParent ==
    [][/\ (/\ CreateServed("POST /customers/:customer_id/sites")
           /\ IsValidUUID(exchange'.args.customer_id)
           /\ exchange'.args.name # ""
           /\ exchange'.args.customer_id \notin LiveCustomers) =>
             /\ exchange'.resp.status = 404
             /\ UNCHANGED db
       /\ (/\ CreateServed("POST /customers/:customer_id/sites/:site_id/devices")
           /\ exchange'.args.body_serial \in SerialNumbers
           /\ IsValidUUID(exchange'.args.customer_id)
           /\ IsValidUUID(exchange'.args.site_id)) =>
             LET c == exchange'.args.customer_id
                 s == exchange'.args.site_id
             IN
             /\ (c \notin LiveCustomers \/ s \notin LiveSites) =>
                  /\ exchange'.resp.status = 404
                  /\ UNCHANGED db
             /\ (c \in LiveCustomers /\ s \in LiveSites /\ sites[s].customer_id # c) =>
                  /\ exchange'.resp.status = 403
                  /\ UNCHANGED db
      ]_vars

\* C21: a Device create through a soft-deleted Site of a non-deleted Customer
\* was answered 404 while a soft-deleted device carries the serial number of
\* the body.
C21_Witness ==
    /\ exchange.route = "POST /customers/:customer_id/sites/:site_id/devices"
    /\ "handler" \in exchange.ran
    /\ exchange.args.customer_id \in LiveCustomers
    /\ exchange.args.site_id \in DOMAIN sites
    /\ sites[exchange.args.site_id].deleted
    /\ \E d \in DOMAIN devices :
         devices[d].serial = exchange.args.body_serial /\ devices[d].deleted
    /\ exchange.resp.status = 404

\* C22 (as claimed): when the concurrent create requests with the same
\* customer name have all been answered, at most one row carries that name
\* and at most one of the requests was answered "created".
C22_ConcurrentCreatesOneRow ==
    \A r1, r2 \in Requests :
      (/\ r1 # r2
       /\ pending[r1].pc = "done"
       /\ pending[r2].pc = "done"
       /\ pending[r1].name = pending[r2].name) =>
         /\ Cardinality({c \in DOMAIN customers :
                           customers[c].name = pending[r1].name}) <= 1
         /\ ~(/\ pending[r1].resp.message = "Customer created"
              /\ pending[r2].resp.message = "Customer created")

\* C23 (as claimed): in every reachable state every non-deleted Site
\* references a non-deleted Customer and every non-deleted Device references
\* a non-deleted Site, and GET /sites and GET /devices, once they reach
\* their handler, are never answered 500.
C23_LiveRowsHaveLiveParents ==
    /\ \A s \in LiveSites : sites[s].customer_id \in LiveCustomers
    /\ \A d \in LiveDevices : devices[d].site_id \in LiveSites
    /\ (/\ exchange.route \in {"GET /sites", "GET /devices"}
        /\ "handler" \in exchange.ran) => exchange.resp.status # 500

\* C24: GET and PUT by an admin on /customers/:customer_id or /sites/:site_id
\* that name a soft-deleted row (the PUT with a name in its body) are
\* answered 404 and change no table; and the delete marker of a Customer or
\* Site is cleared only by the step that serves the create request with the
\* name of that row.
C24_SoftDeletedAbsentById ==
    [][/\ (/\ Served
           /\ AdminServed(exchange')
           /\ exchange'.route \in {"GET /customers/:customer_id", "PUT /customers/:customer_id"}
           /\ exchange'.args.customer_id \in DOMAIN customers \ LiveCustomers
           /\ exchange'.route = "PUT /customers/:customer_id" => exchange'.args.name # "") =>
             /\ exchange'.resp.status = 404
             /\ UNCHANGED db
       /\ (/\ Served
           /\ AdminServed(exchange')
           /\ exchange'.route \in {"GET /sites/:site_id", "PUT /sites/:site_id"}
           /\ exchange'.args.site_id \in DOMAIN sites \ LiveSites
           /\ exchange'.route = "PUT /sites/:site_id" => exchange'.args.name # "") =>
             /\ exchange'.resp.status = 404
             /\ UNCHANGED db
       /\ \A c \in DOMAIN customers \ LiveCustomers :
            ~customers'[c].deleted =>
              /\ exchange'.route = "POST /customers"
              /\ exchange'.args.name = customers[c].name
       /\ \A s \in DOMAIN sites \ LiveSites :
            ~sites'[s].deleted =>
              /\ exchange'.route = "POST /customers/:customer_id/sites"
              /\ exchange'.args.name = sites[s].name
      ]_vars

\* C24: an admin's PUT with a name on the id of a soft-deleted Customer was
\* answered 404.
C24_Witness ==
    /\ exchange.route = "PUT /customers/:customer_id"
    /\ AdminServed(exchange)
    /\ exchange.args.customer_id \in DOMAIN customers \ LiveCustomers
    /\ exchange.args.name \in CustomerNames
    /\ exchange.resp.status = 404

\* C25: POST /authenticate sets the Authorization cookie, to the token of
\* the body and with status 200, exactly when that token is one the server
\* signed and either its role is admin or a persisted (not deleted)
\* auth_tokens row holds exactly that token; an answer of 400 or 401 sets no
\* cookie.
C25_CookieIffTokenLive ==
    exchange.route = "POST /authenticate" =>
      LET t == exchange.args.token
          live == /\ t \in issued
                  /\ \/ t.role = "admin"
                     \/ \E row \in authTokens : row.token = t /\ ~row.deleted
      IN
      /\ live <=> exchange.resp.set_cookie # NoToken
      /\ live => exchange.resp.set_cookie = t /\ exchange.resp.status = 200
      /\ ~live => exchange.resp.status \in {400, 401}

\* C25: a token the server signed for a customer, whose own row is deleted
\* while another row of the same customer and action is persisted, was
\* presented to POST /authenticate and answered 401 without a cookie.
C25_Witness ==
    /\ exchange.route = "POST /authenticate"
    /\ exchange.args.token \in issued
    /\ exchange.args.token.role = "user"
    /\ \A row \in authTokens : row.token = exchange.args.token => row.deleted
    /\ MatchingAuthTokens(exchange.args.token) # {}
    /\ exchange.resp.status = 401
    /\ exchange.resp.set_cookie = NoToken

\* C26: a DELETE /customers/:customer_id answered 200 sets the delete marker
\* of the row with that id and changes nothing else: no other field, no
\* other Customer, no Site, Device or auth_tokens row; and a request with a
\* token the server issued to a Customer that is now soft-deleted still
\* passes AuthMiddleware.
C26_CustomerDeleteTouchesMarkerOnly ==
    [][/\ (/\ Served
           /\ exchange'.route = "DELETE /customers/:customer_id"
           /\ exchange'.resp.status = 200) =>
             /\ UNCHANGED <<sites, devices, authTokens>>
             /\ DOMAIN customers' = DOMAIN customers
             /\ \A c \in DOMAIN customers :
                  customers'[c] = IF c = exchange'.args.customer_id
                                  THEN [customers[c] EXCEPT !.deleted = TRUE]
                                  ELSE customers[c]
       /\ (/\ Served
           /\ exchange'.route \in SessionRoutes
           /\ exchange'.cookie \in issued
           /\ exchange'.cookie.role = "user"
           /\ exchange'.cookie.user_id \in DOMAIN customers \ LiveCustomers) =>
             /\ "auth" \in exchange'.ran
             /\ exchange'.ran # {"auth"}
      ]_vars

\* C26: a request with the token of a soft-deleted Customer, which still has
\* a non-deleted Site, reached its handler.
C26_Witness ==
    /\ exchange.route \in SessionRoutes
    /\ exchange.cookie \in issued
    /\ exchange.cookie.role = "user"
    /\ exchange.cookie.user_id \in DOMAIN customers \ LiveCustomers
    /\ \E s \in LiveSites : sites[s].customer_id = exchange.cookie.user_id
    /\ "handler" \in exchange.ran

\* C27: in every reachable state every token the server issued with role
\* admin has no auth_tokens row, is accepted by AuthMiddleware and is bound
\* with role admin; and every request on a protected route that carries such
\* a token reached its handler.
C27_AdminTokenAlwaysBound ==
    /\ \A t \in issued :
         t.role = "admin" =>
           /\ \A row \in authTokens : row.token # t
           /\ AuthMiddleware(t).ok
           /\ GetString(AuthMiddleware(t).ctx, "role") = "admin"
    /\ (/\ exchange.route \in SessionRoutes
        /\ exchange.cookie \in issued
        /\ exchange.cookie.role = "admin") => "handler" \in exchange.ran

\* C27: after a user token was issued and its row persisted, a request with
\* the admin token on a protected route reached its handler.
C27_Witness ==
    /\ exchange.route \in SessionRoutes
    /\ exchange.cookie \in issued
    /\ exchange.cookie.role = "admin"
    /\ authTokens # {}
    /\ "handler" \in exchange.ran

\* C28: a PUT (with a body that binds) or a DELETE on
\* /devices/:device_serial_number that reaches its handler and whose serial
\* number is that of a soft-deleted device is answered 200, not 404, and the
\* device is still soft-deleted afterwards.
C28_SoftDeletedDeviceMutable ==
    [][(/\ Served
        /\ exchange'.route \in {"PUT /devices/:device_serial_number",
                                "DELETE /devices/:device_serial_number"}
        /\ "handler" \in exchange'.ran
        /\ exchange'.route = "PUT /devices/:device_serial_number" =>
             exchange'.args.body_serial \in SerialNumbers) =>
          \A d \in DOMAIN devices :
            (devices[d].serial = exchange'.args.serial /\ devices[d].deleted) =>
              /\ exchange'.resp.status = 200
              /\ devices'[d].deleted
      ]_vars

\* C28: a PUT on the serial number of a soft-deleted device was answered 200
\* with that device, and the device is still soft-deleted.
C28_Witness ==
    /\ exchange.route = "PUT /devices/:device_serial_number"
    /\ "handler" \in exchange.ran
    /\ exchange.resp.status = 200
    /\ \E d \in DOMAIN devices :
         /\ {e.id : e \in exchange.resp.data} = {d}
         /\ devices[d].deleted

\* C29: a Device create answered 200 for a serial number that a soft-deleted
\* device carries clears that device's delete marker and changes nothing
\* else: the row keeps its gateway (and the fields copied like it), its
\* serial number and its Site reference, whatever the body and the path
\* hold, and no other row of any table changes.
C29_RestoreKeepsFields ==
    [][(/\ CreateServed("POST /customers/:customer_id/sites/:site_id/devices")
        /\ exchange'.resp.status = 200) =>
          \A d \in DOMAIN devices :
            (devices[d].serial = exchange'.args.body_serial /\ devices[d].deleted) =>
              /\ devices' = [devices EXCEPT ![d].deleted = FALSE]
              /\ UNCHANGED <<customers, sites, authTokens>>
      ]_vars

\* C29: a Device create answered 200 whose body holds another gateway and
\* whose path names another Site than the stored ones of the device with the
\* body's serial number: the device was restored.
C29_Witness ==
    /\ exchange.route = "POST /customers/:customer_id/sites/:site_id/devices"
    /\ "handler" \in exchange.ran
    /\ exchange.resp.status = 200
    /\ \E d \in LiveDevices :
         /\ devices[d].serial = exchange.args.body_serial
         /\ devices[d].gateway # exchange.args.gateway
         /\ devices[d].site_id # exchange.args.site_id

\* C30 (as claimed): whenever main has returned, the shutdown goroutine has
\* run Engine.Stop to its end, once, and the persisted app.status is
\* "stopped", whatever the interleaving of Run and Stop was.
C30_StoppedAtExit ==
    mainPC = "exited" =>
      /\ shutdownPC = "done"
      /\ appState.ended
      /\ appState.status = "stopped"

====
